---- MODULE Spec2Model ----
(***************************************************************************)
(* Weather ingestion pipeline of week-02-automation/day-10:                *)
(* weather_to_s3.py (fetch with retry, parse, key scheme, upload, summary) *)
(* Strings are sequences of one-character strings; floating-point values  *)
(* are integers on a binary grid, rounded to FloatPrecision bits.          *)
(***************************************************************************)
EXTENDS Integers, Sequences, FiniteSets, TLC

VARIABLES
    resp,          \* the HTTP exchange handed to the WeatherClient functions
    stage,         \* position inside one call_openweather_api + parse_weather_response
    outcome,       \* what that call returned or raised
    cities,        \* config.cities
    pc,            \* position of main / process_cities / fetch_weather_with_retry
    i,             \* number of cities the for loop of process_cities has taken
    attempt,       \* fetch_weather_with_retry: attempt
    backoff,       \* fetch_weather_with_retry: backoff
    trace,         \* attempts and sleeps of the current fetch_weather_with_retry call
    last,          \* how the latest attempt of the current call ended
    weather,       \* process_cities: weather
    success_count, \* process_cities: success_count
    failure_count, \* process_cities: failure_count
    temps,         \* process_cities: temps
    failures,      \* process_cities: failures
    run_log,       \* fetches, their results and uploads of this run, in order
    put_log,       \* put_object calls of all runs, in order
    bucket,        \* objects of the S3 bucket, by key
    now,           \* UTC clock, seconds since 2026-01-01T00:00:00Z
    summary,       \* the dictionary process_cities returns
    exit_code,     \* what main returns
    runs,          \* pipeline runs started so far
    interval,      \* scheduler: interval_seconds
    query,         \* key scheme: the city, timestamp and filters handed to the builders
    built,         \* key scheme: what build_s3_key and the prefix builder returned
    a_args,        \* weather_analytics main: args and S3_BUCKET_NAME
    a_pc,          \* weather_analytics main: position
    a_day,         \* weather_analytics main: dt of the for loop, midnight of a day
    a_end,         \* weather_analytics main: end
    city_filter,   \* weather_analytics main: city_filter
    a_objs,        \* weather_analytics main: objs of the current day
    a_j,           \* weather_analytics main: objects of objs taken so far
    city_stats,    \* weather_analytics main: city_stats
    a_log,         \* keys the analytics run has met and what it did with each
    a_exit,        \* weather_analytics main: status returned, or the exception raised
    s_values,      \* temperatures in the order they are fed to update_stats
    s_fed,         \* how many of them have been fed
    s_stats,       \* the CityStats they are folded into
    l_fn,          \* which listing function runs: of the analytics or of the viewer
    l_pages,       \* the pages the store has for the prefix
    l_max,         \* view_weather_data list_objects: max_items
    l_token,       \* kwargs["ContinuationToken"], if set
    l_results,     \* results
    l_calls,       \* the list_objects_v2 calls made, in order
    l_pc,          \* position of the listing function
    env,           \* weather_to_s3: the environment load_env_config reads
    client_fails,  \* weather_to_s3: whether boto3.client raises
    sch_pc,        \* weather_scheduler: position of run_scheduler_loop
    sch_interval,  \* interval_seconds
    sch_clock,     \* seconds since the scheduler started
    sch_children,  \* weather_to_s3 subprocesses of the scheduler that are alive
    sch_launches,  \* calls of run_pipeline_once so far
    sch_exit_code, \* exit_code of the loop body, if a run has returned
    sch_events,    \* what happened, in order, with the clock
    sch_return     \* what run_scheduler_loop returned, if it has

fvars == <<resp, stage, outcome>>
pvars == <<cities, pc, i, attempt, backoff, trace, last, weather, success_count,
           failure_count, temps, failures, run_log, put_log, bucket, now,
           summary, exit_code, runs, interval>>
kvars == <<query, built>>
avars == <<a_args, a_pc, a_day, a_end, city_filter, a_objs, a_j, city_stats, a_log, a_exit>>
svars == <<s_values, s_fed, s_stats>>
lvars == <<l_fn, l_pages, l_max, l_token, l_results, l_calls, l_pc>>
mvars == <<env, client_fails>>
schvars == <<sch_pc, sch_interval, sch_clock, sch_children, sch_launches, sch_exit_code,
             sch_events, sch_return>>
tvars == <<kvars, avars, svars, lvars, mvars, schvars>>
vars == <<fvars, pvars, tvars>>

(***************************************************************************)
(* Bounds                                                                  *)
(***************************************************************************)
FloatPrecision == 13     \* mantissa bits of the modelled binary float
MaxCities == 3           \* longest CITIES list
MaxScheduledCities == 1  \* longest CITIES list of a scheduled pipeline
MaxRuns == 2             \* pipeline runs one scheduler starts
MaxCityLen == 2          \* longest city string made of CityChars
MaxObjects == 2          \* most objects in the bucket an analytics run reads
MaxValues == 3           \* most temperatures folded into one CityStats
MaxPages == 3            \* most pages of one listing
MaxPageSize == 2         \* most objects on one page
MaxLaunches == 3         \* most calls of run_pipeline_once by one scheduler

(***************************************************************************)
(* Floating point: round-to-nearest, ties-to-even, on the integer grid     *)
(***************************************************************************)
RECURSIVE Pow2(_)
Pow2(n) == IF n = 0 THEN 1 ELSE 2 * Pow2(n - 1)

Abs(x) == IF x < 0 THEN -x ELSE x

RECURSIVE UlpFrom(_, _)
UlpFrom(q, u) == IF q < Pow2(FloatPrecision) * u THEN u ELSE UlpFrom(q, 2 * u)

\* the float nearest to the rational n/d (d > 0)
Fl[n \in Int, d \in Nat \ {0}] ==
    LET a == Abs(n)
        u == UlpFrom(a \div d, 1)
        g == d * u
        m == a \div g
        r == a - m * g
        up == (2 * r > g) \/ (2 * r = g /\ m % 2 = 1)
        mag == (IF up THEN m + 1 ELSE m) * u
    IN  IF n < 0 THEN -mag ELSE mag

float_add(x, y) == Fl[x + y, 1]
float_sub(x, y) == Fl[x - y, 1]
float_div(x, n) == Fl[x, n]

\* grid steps per kelvin: binary fractions below the 7 integer bits of 100 K
UnitsPerKelvin == Pow2(FloatPrecision - 7)

\* the float written as the decimal literal c/100
FloatLiteral(c) == Fl[c * UnitsPerKelvin, 100]

\* the literal 273.15
ZeroCelsius == FloatLiteral(27315)

kelvin_to_celsius(kelvin) == float_sub(kelvin, ZeroCelsius)

(***************************************************************************)
(* JSON values as json.loads builds them                                   *)
(***************************************************************************)
JNull == [t |-> "null", v |-> 0]
JNum(n) == [t |-> "num", v |-> n]        \* the number literal n/100
JFloat(x) == [t |-> "float", v |-> x]    \* a Python float, on the grid
JInf == [t |-> "inf", v |-> 0]          \* a literal such as 1e999
JStr(s) == [t |-> "str", v |-> s]
JList(l) == [t |-> "list", v |-> l]
JDict(f) == [t |-> "dict", v |-> f]
EmptyDict == JDict(<<>>)

Ok(x) == [exc |-> "none", val |-> x]
Raise(e) == [exc |-> e, val |-> JNull]

\* x[k] for a string key k
py_getitem(x, k) ==
    IF x.t = "dict"
    THEN IF k \in DOMAIN x.v THEN Ok(x.v[k]) ELSE Raise("KeyError")
    ELSE Raise("TypeError")

\* x[0]
py_getitem0(x) ==
    CASE x.t = "list" -> IF Len(x.v) > 0 THEN Ok(x.v[1]) ELSE Raise("IndexError")
      [] x.t = "str" -> IF Len(x.v) > 0 THEN Ok(JStr(<<x.v[1]>>)) ELSE Raise("IndexError")
      [] x.t = "dict" -> Raise("KeyError")
      [] OTHER -> Raise("TypeError")

\* x.get(k, default)
py_get(x, k, default) ==
    IF x.t = "dict"
    THEN Ok(IF k \in DOMAIN x.v THEN x.v[k] ELSE default)
    ELSE Raise("AttributeError")

\* bool(x)
py_truthy(x) ==
    CASE x.t = "null" -> FALSE
      [] x.t = "num" -> x.v # 0
      [] x.t = "float" -> x.v # 0
      [] x.t = "inf" -> TRUE
      [] x.t = "str" -> Len(x.v) > 0
      [] x.t = "list" -> Len(x.v) > 0
      [] x.t = "dict" -> DOMAIN x.v # {}

\* float(x); no string of the model spells a number
py_float(x) ==
    CASE x.t = "num" -> Ok(JFloat(FloatLiteral(x.v)))
      [] x.t = "float" -> Ok(x)
      [] x.t = "inf" -> Ok(JInf)
      [] x.t = "str" -> Raise("ValueError")
      [] OTHER -> Raise("TypeError")

\* int(x)
py_int(x) ==
    CASE x.t \in {"num", "float"} -> Ok(x)
      [] x.t = "inf" -> Raise("OverflowError")
      [] x.t = "str" -> Raise("ValueError")
      [] OTHER -> Raise("TypeError")

\* the first exception of a sequence of evaluation steps, "none" if all pass
RECURSIVE FirstExc(_)
FirstExc(steps) ==
    IF steps = <<>> THEN "none"
    ELSE IF Head(steps) # "none" THEN Head(steps) ELSE FirstExc(Tail(steps))

(***************************************************************************)
(* WeatherClient: call_openweather_api and parse_weather_response          *)
(***************************************************************************)
NoOutcome == [kind |-> "none", retriable |-> FALSE, status_code |-> <<>>,
              exc |-> "none", temperature_c |-> 0]

\* WeatherAPIError(message, status_code, retriable); None is <<>>
WeatherAPIError(status_code, retriable) ==
    [kind |-> "WeatherAPIError", retriable |-> retriable,
     status_code |-> status_code, exc |-> "WeatherAPIError", temperature_c |-> 0]

\* any exception that is not a WeatherAPIError
OtherException(exc) ==
    [kind |-> "exception", retriable |-> FALSE, status_code |-> <<>>,
     exc |-> exc, temperature_c |-> 0]

\* the WeatherData dictionary; only temperature_c is read again
WeatherData(temperature_c) ==
    [kind |-> "record", retriable |-> FALSE, status_code |-> <<>>,
     exc |-> "none", temperature_c |-> temperature_c]

\* the Response object returned by requests.get
ReturnedResponse == [NoOutcome EXCEPT !.kind = "response"]

\* a classifier that forgets HTTP 429
classify_retriable_without_429(status_code) ==
    IF status_code = <<>> THEN TRUE
    ELSE IF 500 <= status_code[1] /\ status_code[1] <= 599 THEN TRUE
    ELSE FALSE

classify_retriable(status_code) ==
    IF status_code = <<>> THEN TRUE
    ELSE IF status_code[1] = 429 THEN TRUE
    ELSE IF 500 <= status_code[1] /\ status_code[1] <= 599 THEN TRUE
    ELSE FALSE

call_openweather_api(r) ==
    IF ~r.net_ok
    THEN WeatherAPIError(<<>>, TRUE)
    ELSE IF ~(200 <= r.status /\ r.status < 300)
    THEN WeatherAPIError(<<r.status>>, classify_retriable(<<r.status>>))
    ELSE ReturnedResponse

\* exception of converting the value fetched by get_r, in evaluation order
ConvExc(get_r, conv_r) == IF get_r.exc # "none" THEN get_r.exc ELSE conv_r.exc

parse_weather_response(r) ==
    IF ~r.json_ok
    THEN WeatherAPIError(<<>>, TRUE)
    ELSE
    LET data == r.data
        main_r == py_getitem(data, "main")
        main == main_r.val
        wind_r == py_get(data, "wind", EmptyDict)
        wind == wind_r.val
        weather_list_r == py_get(data, "weather", JList(<<>>))
        weather_list == weather_list_r.val
        weather_entry_r == IF py_truthy(weather_list)
                           THEN py_getitem0(weather_list) ELSE Ok(EmptyDict)
        weather_entry == weather_entry_r.val
        temp_item == py_getitem(main, "temp")
        temp_k_r == py_float(temp_item.val)
        temp_k == temp_k_r.val
        feels_item == py_get(main, "feels_like", temp_k)
        feels_k_r == py_float(feels_item.val)
        name_r == py_get(data, "name", JNull)
        sys_r == py_get(data, "sys", JNull)
        sys_or == IF py_truthy(sys_r.val) THEN sys_r.val ELSE EmptyDict
        country_r == py_get(sys_or, "country", JNull)
        coord_r == py_get(data, "coord", JNull)
        coord_or == IF py_truthy(coord_r.val) THEN coord_r.val ELSE EmptyDict
        lat_item == py_get(coord_or, "lat", JFloat(0))
        lat_r == py_float(lat_item.val)
        lon_item == py_get(coord_or, "lon", JFloat(0))
        lon_r == py_float(lon_item.val)
        humidity_item == py_get(main, "humidity", JNum(0))
        humidity_r == py_int(humidity_item.val)
        pressure_item == py_get(main, "pressure", JNum(0))
        pressure_r == py_int(pressure_item.val)
        weather_main_r == py_get(weather_entry, "main", JStr(<<>>))
        weather_description_r == py_get(weather_entry, "description", JStr(<<>>))
        speed_item == py_get(wind, "speed", JFloat(0))
        speed_r == py_float(speed_item.val)
        exc == FirstExc(<<
            main_r.exc, wind_r.exc, weather_list_r.exc, weather_entry_r.exc,
            ConvExc(temp_item, temp_k_r), ConvExc(feels_item, feels_k_r),
            name_r.exc, sys_r.exc, country_r.exc,
            coord_r.exc, ConvExc(lat_item, lat_r),
            coord_r.exc, ConvExc(lon_item, lon_r),
            ConvExc(humidity_item, humidity_r), ConvExc(pressure_item, pressure_r),
            weather_main_r.exc, weather_description_r.exc,
            ConvExc(speed_item, speed_r) >>)
    IN  IF exc = "none"
        THEN WeatherData(kelvin_to_celsius(temp_k.v))
        ELSE IF exc \in {"KeyError", "TypeError", "ValueError"}
        THEN WeatherAPIError(<<>>, FALSE)
        ELSE OtherException(exc)

\* the try block of fetch_weather_with_retry: one call, then one parse
fetch_once(r) ==
    LET called == call_openweather_api(r)
    IN  IF called.kind = "response" THEN parse_weather_response(r) ELSE called

(***************************************************************************)
(* HTTP exchanges the weather API can answer with                          *)
(***************************************************************************)
Absent == [t |-> "absent", v |-> 0]
Field(k, x) == IF x = Absent THEN <<>> ELSE (k :> x)

TempLiterals == {15002, 28000}          \* "temp": 150.02 and 280.00

Text == JStr(<<"x">>)

TempVariants == {Absent, JNull, Text, JList(<<>>)} \cup {JNum(c) : c \in TempLiterals}
FeelsVariants == {Absent, Text}
HumidityVariants == {Absent, JNum(5000), JInf}

MainVariants ==
    {Absent, JNull, Text, JList(<<>>)} \cup
    { JDict(Field("temp", t) @@ Field("feels_like", f) @@ Field("humidity", h)) :
        t \in TempVariants, f \in FeelsVariants, h \in HumidityVariants }

WindVariants == {Absent, JDict("speed" :> JNum(300)), JDict("speed" :> Text),
                 JList(<<>>), Text}
WeatherVariants == {Absent, JList(<<>>), JList(<<JDict("main" :> Text)>>),
                    JList(<<JNum(100)>>), Text, JDict("main" :> Text), JNum(100)}
SysVariants == {Absent, JDict("country" :> Text), JList(<<Text>>), JNum(0)}
CoordVariants == {Absent, JDict("lat" :> JNum(100) @@ "lon" :> Text),
                  JDict("lat" :> JNum(100) @@ "lon" :> JNum(100)), Text}

Documents ==
    {JNull, Text, JList(<<>>), JNum(100)} \cup
    { JDict(Field("main", m) @@ Field("wind", w) @@ Field("weather", we)
            @@ Field("sys", sy) @@ Field("coord", co)) :
        m \in MainVariants, w \in WindVariants, we \in WeatherVariants,
        sy \in SysVariants, co \in CoordVariants }

StatusCodes == {100, 199, 200, 204, 299, 300, 400, 401, 404, 428, 429, 430,
                499, 500, 503, 599, 600}

HttpResponse(status, json_ok, data) ==
    [net_ok |-> TRUE, status |-> status, json_ok |-> json_ok, data |-> data]

\* requests.get raised a RequestException
NetworkError == [net_ok |-> FALSE, status |-> 0, json_ok |-> FALSE, data |-> JNull]

Responses ==
    {NetworkError}
    \cup {HttpResponse(s, FALSE, JNull) : s \in StatusCodes}
    \cup {HttpResponse(s, TRUE, JDict("message" :> Text)) : s \in StatusCodes}
    \cup {HttpResponse(200, TRUE, d) : d \in Documents}

(***************************************************************************)
(* Text: str.strip, str.replace, str.lower, strftime                       *)
(***************************************************************************)
Whitespace == {" ", "\t", "\n"}

RECURSIVE lstrip(_)
lstrip(s) == IF s # <<>> /\ Head(s) \in Whitespace THEN lstrip(Tail(s)) ELSE s

RECURSIVE rstrip(_)
rstrip(s) ==
    IF s # <<>> /\ s[Len(s)] \in Whitespace THEN rstrip(SubSeq(s, 1, Len(s) - 1)) ELSE s

strip(s) == rstrip(lstrip(s))

\* s.replace(old, new) for one-character old and new
replace(s, old, new) == [k \in DOMAIN s |-> IF s[k] = old THEN new ELSE s[k]]

UpperToLower ==
    [c \in {"A", "B", "C", "D", "E", "F", "G", "H", "I", "J", "K", "L", "M", "N", "O",
            "P", "Q", "R", "S", "T", "U", "V", "W", "X", "Y", "Z"} |->
        CASE c = "A" -> "a" [] c = "B" -> "b" [] c = "C" -> "c" [] c = "D" -> "d"
          [] c = "E" -> "e" [] c = "F" -> "f" [] c = "G" -> "g" [] c = "H" -> "h"
          [] c = "I" -> "i" [] c = "J" -> "j" [] c = "K" -> "k" [] c = "L" -> "l"
          [] c = "M" -> "m" [] c = "N" -> "n" [] c = "O" -> "o" [] c = "P" -> "p"
          [] c = "Q" -> "q" [] c = "R" -> "r" [] c = "S" -> "s" [] c = "T" -> "t"
          [] c = "U" -> "u" [] c = "V" -> "v" [] c = "W" -> "w" [] c = "X" -> "x"
          [] c = "Y" -> "y" [] c = "Z" -> "z"]

lower(s) == [k \in DOMAIN s |-> IF s[k] \in DOMAIN UpperToLower THEN UpperToLower[s[k]] ELSE s[k]]

DigitChars == <<"0", "1", "2", "3", "4", "5", "6", "7", "8", "9">>
Pad2(n) == <<DigitChars[(n \div 10) + 1], DigitChars[(n % 10) + 1]>>

\* days of the months of 2026
MonthDays == <<31, 28, 31, 30, 31, 30, 31, 31, 30, 31, 30, 31>>

\* month and day of month of the day with index d (0 is January 1)
RECURSIVE MonthDay(_, _)
MonthDay(d, m) == IF d < MonthDays[m] THEN <<m, d + 1>> ELSE MonthDay(d - MonthDays[m], m + 1)

DayOf(ts) == ts \div 86400
MinuteOf(ts) == (ts % 3600) \div 60
SecondOf(ts) == ts % 60

\* ts.strftime("%Y/%m/%d")
strftime_date(ts) ==
    LET md == MonthDay(DayOf(ts), 1)
    IN  <<"2", "0", "2", "6", "/">> \o Pad2(md[1]) \o <<"/">> \o Pad2(md[2])

\* ts.strftime("H%M%S"): a literal H, then minute and second
strftime_time(ts) == <<"H">> \o Pad2(MinuteOf(ts)) \o Pad2(SecondOf(ts))

(***************************************************************************)
(* StorageKeyScheme                                                        *)
(***************************************************************************)
normalize_city_for_key(city) == lower(replace(strip(city), " ", "_"))

build_s3_key(city, ts) ==
    strftime_date(ts) \o <<"/">> \o normalize_city_for_key(city) \o <<"_">>
        \o strftime_time(ts) \o <<".", "j", "s", "o", "n">>

(***************************************************************************)
(* Inputs of a pipeline run                                                *)
(***************************************************************************)
NewYork == <<"N", "e", "w", " ", "Y", "o", "r", "k">>
Oslo == <<"O", "s", "l", "o">>
CityNames == {NewYork, Oslo}

\* the first n names of base repeated
Cycle(base, n) == [k \in 1..n |-> base[((k - 1) % Len(base)) + 1]]

\* orders of names, one of them with a name twice in a row
BaseLists == {<<NewYork, Oslo>>, <<Oslo, NewYork, NewYork>>}

\* load_env_config returns a non-empty list of stripped, non-empty names
CityListsUpTo(n) == {Cycle(base, k) : base \in BaseLists, k \in 1..n}
CityLists == CityListsUpTo(MaxCities)

Doc(m, w, we, sy, co) ==
    JDict(Field("main", m) @@ Field("wind", w) @@ Field("weather", we)
          @@ Field("sys", sy) @@ Field("coord", co))

MainOf(t) == JDict(Field("temp", t) @@ Field("feels_like", Absent) @@ Field("humidity", Absent))

\* one exchange of every kind fetch_weather_with_retry tells apart
PipelineResponses ==
    {NetworkError,
     HttpResponse(404, TRUE, JDict("message" :> Text)),
     HttpResponse(429, TRUE, JDict("message" :> Text)),
     HttpResponse(500, TRUE, JDict("message" :> Text)),
     HttpResponse(200, FALSE, JNull),
     HttpResponse(200, TRUE, Doc(Absent, Absent, Absent, Absent, Absent)),
     HttpResponse(200, TRUE, Doc(MainOf(JNum(28000)), JList(<<>>), Absent, Absent, Absent))}
    \cup {HttpResponse(200, TRUE, Doc(MainOf(JNum(c)), Absent, Absent, Absent, Absent)) :
            c \in TempLiterals}

\* 2026-02-18T14:05:09Z
StartTimes == {48 * 86400 + 14 * 3600 + 5 * 60 + 9}

\* WEATHER_FETCH_INTERVAL_SECONDS: the default and one hour
Intervals == {900, 3600}

\* what client.put_object does
PutOutcomes == {"ok", "ClientError", "BotoCoreError"}

(***************************************************************************)
(* RetryPolicy: fetch_weather_with_retry                                   *)
(***************************************************************************)
max_attempts == 3
initial_backoff_seconds == 1

NoRecord == NoOutcome       \* None

\* what the try block does with each exchange
AttemptOutcome == [r \in PipelineResponses |-> fetch_once(r)]

\* attempt number n and whether it met HTTP 500, or a sleep of n seconds
Event(ev, n, http500) == [ev |-> ev, n |-> n, http500 |-> http500]

Http500(r) == r.net_ok /\ r.status = 500

\* every attempt was used and each met HTTP 500
All500(tr) ==
    /\ Cardinality({k \in DOMAIN tr : tr[k].ev = "attempt"}) = max_attempts
    /\ \A k \in DOMAIN tr : tr[k].ev = "attempt" => tr[k].http500

\* an entry of run_log
Op(op, idx, all500) == [op |-> op, idx |-> idx, all500 |-> all500]

\* while attempt < max_attempts: attempt += 1, then the try block
Attempted(r) ==
    /\ pc = "fetch"
    /\ attempt < max_attempts
    /\ attempt' = attempt + 1
    /\ trace' = Append(trace, Event("attempt", attempt + 1, Http500(r)))

\* the try block returns the parsed record
fetch_attempt_returns ==
    \E r \in PipelineResponses :
        /\ Attempted(r)
        /\ AttemptOutcome[r].kind = "record"
        /\ weather' = AttemptOutcome[r]
        /\ last' = "record"
        /\ pc' = "fetched"
        /\ UNCHANGED <<backoff, now>>

\* a handler that never looks at the retriable flag
after_api_error_flag_ignored(retriable, attempts_made) ==
    IF attempts_made < max_attempts THEN "sleep" ELSE "fetch"

\* a handler that also sleeps after the last attempt
after_api_error_sleep_always(retriable, attempts_made) ==
    IF ~retriable THEN "fetched"
    ELSE IF attempts_made <= max_attempts THEN "sleep"
    ELSE "fetch"

\* where the WeatherAPIError handler leaves the loop
after_api_error(retriable, attempts_made) ==
    IF ~retriable THEN "fetched"
    ELSE IF attempts_made < max_attempts THEN "sleep"
    ELSE "fetch"

\* except WeatherAPIError
fetch_attempt_api_error ==
    \E r \in PipelineResponses :
        /\ Attempted(r)
        /\ AttemptOutcome[r].kind = "WeatherAPIError"
        /\ last' = IF AttemptOutcome[r].retriable THEN "retriable" ELSE "nonretriable"
        /\ pc' = after_api_error(AttemptOutcome[r].retriable, attempt + 1)
        /\ weather' = NoRecord
        /\ UNCHANGED <<backoff, now>>

\* a sleep that never doubles the backoff
fetch_sleep_constant ==
    /\ pc = "sleep"
    /\ trace' = Append(trace, Event("sleep", backoff, FALSE))
    /\ now' = now + backoff
    /\ backoff' = backoff
    /\ pc' = "fetch"
    /\ UNCHANGED <<attempt, last, weather>>

\* time.sleep(backoff); backoff *= 2
fetch_sleep ==
    /\ pc = "sleep"
    /\ trace' = Append(trace, Event("sleep", backoff, FALSE))
    /\ now' = now + backoff
    /\ backoff' = backoff * 2
    /\ pc' = "fetch"
    /\ UNCHANGED <<attempt, last, weather>>

\* except Exception: logged, and the city yields no record
fetch_attempt_unexpected ==
    \E r \in PipelineResponses :
        /\ Attempted(r)
        /\ AttemptOutcome[r].kind = "exception"
        /\ last' = "exception"
        /\ weather' = NoRecord
        /\ pc' = "fetched"
        /\ UNCHANGED <<backoff, now>>

\* the loop ends with every attempt used: no record
fetch_after_loop ==
    /\ pc = "fetch"
    /\ attempt >= max_attempts
    /\ weather' = NoRecord
    /\ pc' = "fetched"
    /\ UNCHANGED <<attempt, backoff, trace, last, now>>

(***************************************************************************)
(* IngestionPipeline: upload_to_s3, process_cities, main                   *)
(***************************************************************************)
\* an upload that reports success whatever put_object did
upload_to_s3_always_true(put_outcome) == TRUE

\* True when put_object returned, False when it raised
upload_to_s3(put_outcome) == put_outcome = "ok"

\* the locals of a finished fetch_weather_with_retry call are gone
FrameDropped ==
    /\ attempt' = 0
    /\ backoff' = initial_backoff_seconds
    /\ trace' = <<>>
    /\ last' = "none"
    /\ weather' = NoRecord

\* for city in config.cities: weather = fetch_weather_with_retry(city, config)
process_cities_next_city ==
    /\ pc = "process"
    /\ i < Len(cities)
    /\ i' = i + 1
    /\ run_log' = Append(run_log, Op("fetch", i + 1, FALSE))
    /\ FrameDropped
    /\ pc' = "fetch"
    /\ UNCHANGED <<success_count, failure_count, temps, failures, put_log, bucket,
                   now, summary, exit_code>>

\* a failed fetch that leaves the loop instead of continuing
process_cities_fetch_failed_break ==
    /\ pc = "fetched"
    /\ weather = NoRecord
    /\ failure_count' = failure_count + 1
    /\ failures' = Append(failures, cities[i])
    /\ run_log' = Append(run_log, Op("none", i, All500(trace)))
    /\ pc' = "process"
    /\ i' = Len(cities)
    /\ FrameDropped
    /\ UNCHANGED <<success_count, temps, put_log, bucket, now, summary, exit_code>>

\* if weather is None: count the failure and continue
process_cities_fetch_failed ==
    /\ pc = "fetched"
    /\ weather = NoRecord
    /\ failure_count' = failure_count + 1
    /\ failures' = Append(failures, cities[i])
    /\ run_log' = Append(run_log, Op("none", i, All500(trace)))
    /\ pc' = "process"
    /\ FrameDropped
    /\ UNCHANGED <<i, success_count, temps, put_log, bucket, now, summary, exit_code>>

\* an upload step that keeps the temperature even when the upload failed
process_cities_upload_keeps_temp ==
    /\ pc = "fetched"
    /\ weather # NoRecord
    /\ \E put_outcome \in PutOutcomes :
        LET ts == now
            key == build_s3_key(cities[i], ts)
            uploaded == upload_to_s3(put_outcome)
        IN  /\ put_log' = Append(put_log, [key |-> key, city |-> cities[i], idx |-> i,
                                           run |-> runs, ts |-> ts,
                                           body |-> weather.temperature_c,
                                           stored |-> put_outcome = "ok"])
            /\ run_log' = Append(Append(run_log, Op("record", i, FALSE)),
                                 Op(IF uploaded THEN "put_ok" ELSE "put_failed", i, FALSE))
            /\ bucket' = IF put_outcome = "ok"
                         THEN {o \in bucket : o.key # key}
                              \cup {[key |-> key, body |-> weather.temperature_c]}
                         ELSE bucket
            /\ temps' = Append(temps, weather.temperature_c)
            /\ IF uploaded
               THEN /\ success_count' = success_count + 1
                    /\ UNCHANGED <<failure_count, failures>>
               ELSE /\ failure_count' = failure_count + 1
                    /\ failures' = Append(failures, cities[i])
                    /\ UNCHANGED <<success_count>>
    /\ pc' = "process"
    /\ FrameDropped
    /\ UNCHANGED <<i, now, summary, exit_code>>

\* build the key, upload, count the result
process_cities_upload ==
    /\ pc = "fetched"
    /\ weather # NoRecord
    /\ \E put_outcome \in PutOutcomes :
        LET ts == now
            key == build_s3_key(cities[i], ts)
            uploaded == upload_to_s3(put_outcome)
        IN  /\ put_log' = Append(put_log, [key |-> key, city |-> cities[i], idx |-> i,
                                           run |-> runs, ts |-> ts,
                                           body |-> weather.temperature_c,
                                           stored |-> put_outcome = "ok"])
            /\ run_log' = Append(Append(run_log, Op("record", i, FALSE)),
                                 Op(IF uploaded THEN "put_ok" ELSE "put_failed", i, FALSE))
            /\ bucket' = IF put_outcome = "ok"
                         THEN {o \in bucket : o.key # key}
                              \cup {[key |-> key, body |-> weather.temperature_c]}
                         ELSE bucket
            /\ IF uploaded
               THEN /\ success_count' = success_count + 1
                    /\ temps' = Append(temps, weather.temperature_c)
                    /\ UNCHANGED <<failure_count, failures>>
               ELSE /\ failure_count' = failure_count + 1
                    /\ failures' = Append(failures, cities[i])
                    /\ UNCHANGED <<success_count, temps>>
    /\ pc' = "process"
    /\ FrameDropped
    /\ UNCHANGED <<i, now, summary, exit_code>>

RECURSIVE py_min(_)
py_min(xs) ==
    IF Len(xs) = 1 THEN xs[1]
    ELSE LET m == py_min(Tail(xs)) IN IF m < Head(xs) THEN m ELSE Head(xs)

RECURSIVE py_max(_)
py_max(xs) ==
    IF Len(xs) = 1 THEN xs[1]
    ELSE LET m == py_max(Tail(xs)) IN IF m > Head(xs) THEN m ELSE Head(xs)

\* sum(xs): a left fold of float additions starting from 0
RECURSIVE py_sum(_)
py_sum(xs) ==
    IF xs = <<>> THEN 0
    ELSE float_add(py_sum(SubSeq(xs, 1, Len(xs) - 1)), xs[Len(xs)])

NoSummary ==
    [total_cities |-> 0, success_count |-> 0, failure_count |-> 0,
     min_temp_c |-> <<>>, max_temp_c |-> <<>>, avg_temp_c |-> <<>>, failures |-> <<>>]

\* the summary dictionary; None is <<>>, a number x is <<x>>
process_cities_return ==
    /\ pc = "process"
    /\ i >= Len(cities)
    /\ summary' =
        [total_cities |-> Len(cities),
         success_count |-> success_count,
         failure_count |-> failure_count,
         min_temp_c |-> IF temps # <<>> THEN <<py_min(temps)>> ELSE <<>>,
         max_temp_c |-> IF temps # <<>> THEN <<py_max(temps)>> ELSE <<>>,
         avg_temp_c |-> IF temps # <<>> THEN <<float_div(py_sum(temps), Len(temps))>> ELSE <<>>,
         failures |-> failures]
    /\ pc' = "summarized"
    /\ UNCHANGED <<i, attempt, backoff, trace, last, weather, success_count,
                   failure_count, temps, failures, run_log, put_log, bucket, now,
                   exit_code>>

\* a main that reports success whatever the summary says
main_return_always_zero ==
    /\ pc = "summarized"
    /\ exit_code' = <<0>>
    /\ pc' = "done"
    /\ UNCHANGED <<i, attempt, backoff, trace, last, weather, success_count,
                   failure_count, temps, failures, run_log, put_log, bucket, now,
                   summary>>

\* if summary["failure_count"] > 0: return 1; otherwise return 0
main_return ==
    /\ pc = "summarized"
    /\ exit_code' = IF summary.failure_count > 0 THEN <<1>> ELSE <<0>>
    /\ pc' = "done"
    /\ UNCHANGED <<i, attempt, backoff, trace, last, weather, success_count,
                   failure_count, temps, failures, run_log, put_log, bucket, now,
                   summary>>

\* the state in which main calls process_cities
RunStart ==
    /\ pc = "process"
    /\ i = 0
    /\ attempt = 0
    /\ backoff = initial_backoff_seconds
    /\ trace = <<>>
    /\ last = "none"
    /\ weather = NoRecord
    /\ success_count = 0
    /\ failure_count = 0
    /\ temps = <<>>
    /\ failures = <<>>
    /\ run_log = <<>>
    /\ summary = NoSummary
    /\ exit_code = <<>>

FetchIdle ==
    /\ resp = NetworkError
    /\ stage = "idle"
    /\ outcome = NoOutcome

\* no tool of the key scheme has been called
NoQuery == [city |-> <<>>, ts |-> 0, date_str |-> <<>>, city_arg |-> <<>>]
NothingBuilt == [key |-> <<>>, prefix |-> <<>>, norm |-> <<>>]

KeysIdle ==
    /\ query = NoQuery
    /\ built = NothingBuilt

\* weather_analytics has not been started
NoArgs == [date |-> <<>>, start_date |-> <<>>, end_date |-> <<>>, city |-> <<>>,
           bucket_name |-> <<>>]

AnalyticsIdle ==
    /\ a_args = NoArgs
    /\ a_pc = "idle"
    /\ a_day = 0
    /\ a_end = 0
    /\ city_filter = <<>>
    /\ a_objs = <<>>
    /\ a_j = 0
    /\ city_stats = <<>>
    /\ a_log = <<>>
    /\ a_exit = <<>>

\* no CityStats is being folded
StatsIdle ==
    /\ s_values = <<>>
    /\ s_fed = 0
    /\ s_stats = [count |-> 0, temp_sum |-> 0, temp_min |-> <<>>, temp_max |-> <<>>]

\* no listing function runs
ListingIdle ==
    /\ l_fn = "none"
    /\ l_pages = <<>>
    /\ l_max = 0
    /\ l_token = <<>>
    /\ l_results = <<>>
    /\ l_calls = <<>>
    /\ l_pc = "idle"

\* the configuration is loaded and the S3 client is built
NoEnv == [OPENWEATHER_API_KEY |-> <<>>, S3_BUCKET_NAME |-> <<>>, CITIES |-> <<>>]
MainIdle ==
    /\ env = NoEnv
    /\ client_fails = FALSE

\* no scheduler runs
SchedulerIdle ==
    /\ sch_pc = "idle"
    /\ sch_interval = 0
    /\ sch_clock = 0
    /\ sch_children = 0
    /\ sch_launches = 0
    /\ sch_exit_code = <<>>
    /\ sch_events = <<>>
    /\ sch_return = <<>>

ToolsIdle == KeysIdle /\ AnalyticsIdle /\ StatsIdle /\ ListingIdle /\ MainIdle /\ SchedulerIdle

Init ==
    /\ FetchIdle
    /\ ToolsIdle
    /\ RunStart
    /\ cities \in CityLists
    /\ now \in StartTimes
    /\ interval = 900
    /\ runs = 1
    /\ put_log = <<>>
    /\ bucket = {}

Next ==
    \/ process_cities_next_city /\ UNCHANGED <<fvars, tvars, cities, runs, interval>>
    \/ fetch_attempt_returns /\ UNCHANGED <<fvars, tvars, cities, runs, interval, i, success_count, failure_count, temps, failures, run_log, put_log, bucket, summary, exit_code>>
    \/ fetch_attempt_api_error /\ UNCHANGED <<fvars, tvars, cities, runs, interval, i, success_count, failure_count, temps, failures, run_log, put_log, bucket, summary, exit_code>>
    \/ fetch_sleep /\ UNCHANGED <<fvars, tvars, cities, runs, interval, i, success_count, failure_count, temps, failures, run_log, put_log, bucket, summary, exit_code>>
    \/ fetch_attempt_unexpected /\ UNCHANGED <<fvars, tvars, cities, runs, interval, i, success_count, failure_count, temps, failures, run_log, put_log, bucket, summary, exit_code>>
    \/ fetch_after_loop /\ UNCHANGED <<fvars, tvars, cities, runs, interval, i, success_count, failure_count, temps, failures, run_log, put_log, bucket, summary, exit_code>>
    \/ process_cities_fetch_failed /\ UNCHANGED <<fvars, tvars, cities, runs, interval>>
    \/ process_cities_upload /\ UNCHANGED <<fvars, tvars, cities, runs, interval>>
    \/ process_cities_return /\ UNCHANGED <<fvars, tvars, cities, runs, interval>>
    \/ main_return /\ UNCHANGED <<fvars, tvars, cities, runs, interval>>

Spec == Init /\ [][Next]_vars

(***************************************************************************)
(* Scheduled runs: weather_scheduler.py starts the pipeline again after    *)
(* each interval                                                           *)
(***************************************************************************)
scheduler_next_run ==
    /\ pc = "done"
    /\ runs < MaxRuns
    /\ runs' = runs + 1
    /\ now' = now + interval
    /\ pc' = "process"
    /\ i' = 0
    /\ FrameDropped
    /\ success_count' = 0
    /\ failure_count' = 0
    /\ temps' = <<>>
    /\ failures' = <<>>
    /\ run_log' = <<>>
    /\ summary' = NoSummary
    /\ exit_code' = <<>>
    /\ UNCHANGED <<fvars, tvars, cities, interval, put_log, bucket>>

InitRuns ==
    /\ FetchIdle
    /\ ToolsIdle
    /\ RunStart
    /\ cities \in CityListsUpTo(MaxScheduledCities)
    /\ now \in StartTimes
    /\ interval \in Intervals
    /\ runs = 1
    /\ put_log = <<>>
    /\ bucket = {}

NextRuns == Next \/ scheduler_next_run

SpecRuns == InitRuns /\ [][NextRuns]_vars

(***************************************************************************)
(* One WeatherClient fetch: call_openweather_api, then                     *)
(* parse_weather_response, on any exchange                                 *)
(***************************************************************************)
client_call ==
    /\ stage = "call"
    /\ outcome' = call_openweather_api(resp)
    /\ stage' = IF call_openweather_api(resp).kind = "response" THEN "parse" ELSE "call_raised"
    /\ UNCHANGED <<resp, pvars, tvars>>

client_parse ==
    /\ stage = "parse"
    /\ outcome' = parse_weather_response(resp)
    /\ stage' = IF parse_weather_response(resp).kind = "record" THEN "returned" ELSE "parse_raised"
    /\ UNCHANGED <<resp, pvars, tvars>>

InitFetch ==
    /\ ToolsIdle
    /\ resp \in Responses
    /\ stage = "call"
    /\ outcome = NoOutcome
    /\ RunStart
    /\ cities = <<>>
    /\ now \in StartTimes
    /\ interval = 900
    /\ runs = 0
    /\ put_log = <<>>
    /\ bucket = {}

NextFetch == client_call \/ client_parse

SpecFetch == InitFetch /\ [][NextFetch]_vars

(***************************************************************************)
(* Key scheme: build_s3_key of weather_to_s3.py and                        *)
(* build_prefix_for_date_and_city of view_weather_data.py on one city and  *)
(* one timestamp                                                           *)
(***************************************************************************)
CityChars == {"N", "y", " ", "_"}
StringsUpTo(n) == UNION {[1..k -> CityChars] : k \in 0..n}

\* city names as a user or CITIES gives them
CityStrings == StringsUpTo(MaxCityLen) \cup {NewYork, Oslo}

\* 2026-02-18T14:05:09Z, first and last second of 2026, 2026-03-01T09:30:00Z
Timestamps ==
    {48 * 86400 + 14 * 3600 + 5 * 60 + 9, 0, 365 * 86400 - 1, 59 * 86400 + 9 * 3600 + 30 * 60}

HourOf(ts) == (ts % 86400) \div 3600

\* the date of ts as typed for --date: YYYY-MM-DD
IsoDate(ts) ==
    LET md == MonthDay(DayOf(ts), 1)
    IN  <<"2", "0", "2", "6", "-">> \o Pad2(md[1]) \o <<"-">> \o Pad2(md[2])

\* the same date typed with slashes, which strptime rejects
SlashDate(ts) == replace(IsoDate(ts), "-", "/")

IsDigit(ch) == \E k \in DOMAIN DigitChars : DigitChars[k] = ch
DigitValue(ch) == (CHOOSE k \in DOMAIN DigitChars : DigitChars[k] = ch) - 1

RECURSIVE DaysBefore(_)
DaysBefore(m) == IF m = 1 THEN 0 ELSE DaysBefore(m - 1) + MonthDays[m - 1]

\* datetime.strptime(date_str, "%Y-%m-%d") of a zero-padded date of 2026:
\* midnight of that day, or ValueError
strptime(date_str) ==
    IF /\ Len(date_str) = 10
       /\ SubSeq(date_str, 1, 5) = <<"2", "0", "2", "6", "-">>
       /\ date_str[8] = "-"
       /\ \A k \in {6, 7, 9, 10} : IsDigit(date_str[k])
    THEN LET month == 10 * DigitValue(date_str[6]) + DigitValue(date_str[7])
             day == 10 * DigitValue(date_str[9]) + DigitValue(date_str[10])
         IN  IF month \in 1..12 /\ day >= 1 /\ day <= MonthDays[month]
             THEN Ok((DaysBefore(month) + day - 1) * 86400)
             ELSE Raise("ValueError")
    ELSE Raise("ValueError")

\* sep.join(parts)
RECURSIVE join(_, _)
join(sep, parts) ==
    IF parts = <<>> THEN <<>>
    ELSE IF Len(parts) = 1 THEN parts[1]
    ELSE parts[1] \o sep \o join(sep, Tail(parts))

\* an Optional[str] that is neither None nor empty
py_truthy_str(opt) == opt # <<>> /\ opt[1] # <<>>

\* view_weather_data.build_prefix_for_date_and_city
build_prefix_for_date_and_city(date_str, city) ==
    LET dt == IF py_truthy_str(date_str) THEN strptime(date_str[1]) ELSE Ok(0)
        date_parts == IF py_truthy_str(date_str) THEN <<strftime_date(dt.val)>> ELSE <<>>
        city_normalized == lower(replace(strip(city[1]), " ", "_"))
        city_parts == IF py_truthy_str(city) THEN <<city_normalized \o <<"_">> >> ELSE <<>>
        prefix_parts == date_parts \o city_parts
    IN  IF dt.exc # "none" THEN Raise("ValueError")
        ELSE IF prefix_parts = <<>> THEN Ok(<<>>)
        ELSE Ok(join(<<"/">>, prefix_parts))

\* key = build_s3_key(city, ts)
ingest_build_key ==
    /\ query # NoQuery
    /\ built.key = <<>>
    /\ built' = [built EXCEPT !.key = <<build_s3_key(query.city, query.ts)>>]
    /\ UNCHANGED <<query, avars, svars, lvars, mvars, schvars>>

\* prefix = build_prefix_for_date_and_city(args.date, args.city)
viewer_build_prefix ==
    /\ query # NoQuery
    /\ built.prefix = <<>>
    /\ built' = [built EXCEPT
                   !.prefix = <<build_prefix_for_date_and_city(query.date_str, query.city_arg)>>]
    /\ UNCHANGED <<query, avars, svars, lvars, mvars, schvars>>

\* if city: city_normalized = city.strip().replace(" ", "_").lower()
viewer_city_normalized(city) ==
    IF ~py_truthy_str(city) THEN <<>>
    ELSE <<lower(replace(strip(city[1]), " ", "_"))>>

\* weather_analytics.normalize_city_for_filter
normalize_city_for_filter(city) ==
    IF ~py_truthy_str(city) THEN <<>>
    ELSE <<lower(replace(strip(city[1]), " ", "_"))>>

\* the value the next normalisation is applied to: the city, then each result
NormInput == IF built.norm = <<>> THEN <<query.city>> ELSE built.norm[Len(built.norm)].out

\* the normalisations of one run are those of one implementation
NormBy(fn) ==
    /\ query # NoQuery
    /\ Len(built.norm) < 2
    /\ \A k \in DOMAIN built.norm : built.norm[k].fn = fn

\* normalize_city_for_key applied to a city or to its own result
ingest_normalize ==
    /\ NormBy("normalize_city_for_key")
    /\ NormInput # <<>>
    /\ built' = [built EXCEPT !.norm = Append(@,
                   [fn |-> "normalize_city_for_key",
                    out |-> <<normalize_city_for_key(NormInput[1])>>])]
    /\ UNCHANGED <<query, avars, svars, lvars, mvars, schvars>>

\* normalize_city_for_filter applied to --city or to its own result
analytics_normalize ==
    /\ NormBy("normalize_city_for_filter")
    /\ built' = [built EXCEPT !.norm = Append(@,
                   [fn |-> "normalize_city_for_filter",
                    out |-> normalize_city_for_filter(NormInput)])]
    /\ UNCHANGED <<query, avars, svars, lvars, mvars, schvars>>

\* the viewer's normalisation applied to --city or to its own result
viewer_normalize ==
    /\ NormBy("build_prefix_for_date_and_city")
    /\ built' = [built EXCEPT !.norm = Append(@,
                   [fn |-> "build_prefix_for_date_and_city",
                    out |-> viewer_city_normalized(NormInput)])]
    /\ UNCHANGED <<query, avars, svars, lvars, mvars, schvars>>

\* a city and a timestamp; --date absent, the date of the timestamp, or that
\* date in another layout; --city absent or the city
InitKeys ==
    /\ FetchIdle
    /\ RunStart
    /\ cities = <<>>
    /\ now \in StartTimes
    /\ interval = 900
    /\ runs = 0
    /\ put_log = <<>>
    /\ bucket = {}
    /\ AnalyticsIdle
    /\ StatsIdle
    /\ ListingIdle
    /\ MainIdle
    /\ SchedulerIdle
    /\ built = NothingBuilt
    /\ \E c \in CityStrings, ts \in Timestamps :
         \E d \in {<<>>, <<IsoDate(ts)>>, <<SlashDate(ts)>>}, ca \in {<<>>, <<c>>} :
            query = [city |-> c, ts |-> ts, date_str |-> d, city_arg |-> ca]

NextKeys ==
    \/ ingest_build_key /\ UNCHANGED <<fvars, pvars>>
    \/ viewer_build_prefix /\ UNCHANGED <<fvars, pvars>>
    \/ ingest_normalize /\ UNCHANGED <<fvars, pvars>>
    \/ analytics_normalize /\ UNCHANGED <<fvars, pvars>>
    \/ viewer_normalize /\ UNCHANGED <<fvars, pvars>>

SpecKeys == InitKeys /\ [][NextKeys]_vars

(***************************************************************************)
(* weather_analytics.py: per-city statistics over the objects of a date    *)
(* range                                                                   *)
(***************************************************************************)
\* the characters of keys, in code point order
KeyCharOrder ==
    <<" ", ".", "/", "0", "1", "2", "3", "4", "5", "6", "7", "8", "9",
      "H", "N", "O", "Y", "_",
      "a", "b", "c", "d", "e", "f", "g", "h", "i", "j", "k", "l", "m",
      "n", "o", "p", "q", "r", "s", "t", "u", "v", "w", "x", "y", "z">>
Ord(ch) == CHOOSE k \in DOMAIN KeyCharOrder : KeyCharOrder[k] = ch

\* a < b for strings
RECURSIVE StrLess(_, _)
StrLess(a, b) ==
    IF b = <<>> THEN FALSE
    ELSE IF a = <<>> THEN TRUE
    ELSE IF Head(a) # Head(b) THEN Ord(Head(a)) < Ord(Head(b))
    ELSE StrLess(Tail(a), Tail(b))

startswith(s, prefix) ==
    Len(prefix) <= Len(s) /\ SubSeq(s, 1, Len(prefix)) = prefix

\* the objects of a set in ascending key order
RECURSIVE SortedByKey(_)
SortedByKey(objs) ==
    IF objs = {} THEN <<>>
    ELSE LET first == CHOOSE o \in objs : \A other \in objs \ {o} : StrLess(o.key, other.key)
         IN  <<first>> \o SortedByKey(objs \ {first})

\* what list_objects_v2 has under a prefix, every page of it
ObjectsUnder(prefix) == SortedByKey({o \in bucket : startswith(o.key, prefix)})

\* dt.strftime("%Y/%m/%d/")
prefix_for_date(dt) == strftime_date(dt) \o <<"/">>

\* s.rsplit(sep, 1)[-1]: what follows the last sep
RECURSIVE rsplit_last(_, _)
rsplit_last(str, sep) ==
    IF str = <<>> THEN <<>>
    ELSE IF str[Len(str)] = sep THEN <<>>
    ELSE rsplit_last(SubSeq(str, 1, Len(str) - 1), sep) \o <<str[Len(str)]>>

\* s.split(sep, 1)[0]: what precedes the first sep
RECURSIVE split_first(_, _)
split_first(str, sep) ==
    IF str = <<>> THEN <<>>
    ELSE IF Head(str) = sep THEN <<>>
    ELSE <<Head(str)>> \o split_first(Tail(str), sep)

\* fetch_json: the parsed body, or None after ClientError, BotoCoreError or ValueError
fetch_json(obj) ==
    IF obj.get # "ok" THEN JNull
    ELSE IF ~obj.json_ok THEN JNull
    ELSE obj.doc

CityStats == [count |-> 0, temp_sum |-> 0, temp_min |-> <<>>, temp_max |-> <<>>]

\* a fold that keeps the first value as minimum
update_stats_keeps_first_min(stats, temp_c) ==
    [count |-> stats.count + 1,
     temp_sum |-> float_add(stats.temp_sum, temp_c),
     temp_min |-> IF stats.temp_min = <<>> THEN <<temp_c>> ELSE stats.temp_min,
     temp_max |-> IF stats.temp_max = <<>> \/ temp_c > stats.temp_max[1]
                  THEN <<temp_c>> ELSE stats.temp_max]

update_stats(stats, temp_c) ==
    [count |-> stats.count + 1,
     temp_sum |-> float_add(stats.temp_sum, temp_c),
     temp_min |-> IF stats.temp_min = <<>> \/ temp_c < stats.temp_min[1]
                  THEN <<temp_c>> ELSE stats.temp_min,
     temp_max |-> IF stats.temp_max = <<>> \/ temp_c > stats.temp_max[1]
                  THEN <<temp_c>> ELSE stats.temp_max]

\* city_stats[name] of a defaultdict(CityStats)
StatsOf(stats, name) == IF name \in DOMAIN stats THEN stats[name] ELSE CityStats

\* the body of "for obj in objs": what is done with the object and the new city_stats
analytics_object(obj, stats, filter) ==
    LET key == obj.key
        filename == rsplit_last(key, "/")
        city_part == split_first(filename, "_")
        doc == fetch_json(obj)
        temp_r == py_get(doc, "temperature_c", JNull)
        city_r == py_get(doc, "city", JNull)
        city_name == IF py_truthy(city_r.val) THEN city_r.val.v
                     ELSE <<"u", "n", "k", "n", "o", "w", "n">>
    IN  IF py_truthy_str(filter) /\ lower(city_part) # filter[1]
        THEN [step |-> "filtered", stats |-> stats]
        ELSE IF ~py_truthy(doc)
        THEN [step |-> "no_doc", stats |-> stats]
        ELSE IF temp_r.exc # "none"
        THEN [step |-> temp_r.exc, stats |-> stats]
        ELSE IF temp_r.val.t \notin {"num", "float", "inf"}
        THEN [step |-> "no_temp", stats |-> stats]
        ELSE [step |-> "updated",
              stats |-> (city_name :> update_stats(StatsOf(stats, city_name),
                                                   py_float(temp_r.val).val.v))
                        @@ stats]


\* 2026-02-18T14:05:09Z and 2026-02-19T09:30:00Z
AnalyticsTimes == {48 * 86400 + 14 * 3600 + 5 * 60 + 9, 49 * 86400 + 9 * 3600 + 30 * 60}

\* what get_object and json.loads can make of an object: the record ingestion
\* wrote, a download error, bytes that are not JSON, and JSON of other shapes
StoredBodies(city) ==
    LET body(get, json_ok, doc) == [get |-> get, json_ok |-> json_ok, doc |-> doc]
        record == ("city" :> JStr(city))
                  @@ ("temperature_c" :> JFloat(kelvin_to_celsius(FloatLiteral(28000))))
    IN  {body("ok", TRUE, JDict(record)),
         body("ClientError", TRUE, JNull),
         body("ok", FALSE, JNull),
         body("ok", TRUE, JList(<<JNum(100)>>)),
         body("ok", TRUE, JNum(500)),
         body("ok", TRUE, JNull),
         body("ok", TRUE, JDict("city" :> JStr(city))),
         body("ok", TRUE, JDict(("city" :> JStr(city)) @@ ("temperature_c" :> Text)))}

\* objects under the keys ingestion writes for a city at a time
StoredObjects ==
    UNION {{[key |-> build_s3_key(c, ts), city |-> c, ts |-> ts,
             get |-> b.get, json_ok |-> b.json_ok, doc |-> b.doc] :
               ts \in AnalyticsTimes, b \in StoredBodies(c)} : c \in CityNames}

\* buckets of at most n objects, one object per key
RECURSIVE BucketsUpTo(_)
BucketsUpTo(n) ==
    IF n = 0 THEN {{}}
    ELSE LET smaller == BucketsUpTo(n - 1)
         IN  smaller \cup
             UNION {{b \cup {o} : o \in {x \in StoredObjects : \A y \in b : y.key # x.key}} :
                      b \in smaller}

\* command lines: one day, a range, an empty range, and the rejected ones
DayOne == IsoDate(48 * 86400)
DayTwo == IsoDate(49 * 86400)
CommandLines ==
    LET args(date, start_date, end_date, bucket_name) ==
            [date |-> date, start_date |-> start_date, end_date |-> end_date,
             bucket_name |-> bucket_name]
        name == <<<<"b">>>>
    IN  {args(<<DayOne>>, <<>>, <<>>, name),
         args(<<>>, <<DayOne>>, <<DayTwo>>, name),
         args(<<>>, <<DayTwo>>, <<DayOne>>, name),
         args(<<DayOne>>, <<DayOne>>, <<>>, name),
         args(<<>>, <<DayOne>>, <<>>, name),
         args(<<SlashDate(48 * 86400)>>, <<>>, <<>>, name),
         args(<<DayOne>>, <<>>, <<>>, <<>>)}

\* --city: absent, a name with a space, other letter case, surrounding blanks
CityFilters ==
    {<<>>, <<NewYork>>, <<<<"O", "S", "L", "O">>>>, <<<<" ", "o", "s", "l", "o">>>>}

\* main up to the for loop: argument checks, bucket name, dates, city filter
analytics_start ==
    /\ a_pc = "args"
    /\ LET single == py_truthy_str(a_args.date)
           start_r == strptime(IF single THEN a_args.date[1] ELSE a_args.start_date[1])
           end_r == strptime(IF single THEN a_args.date[1] ELSE a_args.end_date[1])
           rejected ==
               \/ single /\ (py_truthy_str(a_args.start_date) \/ py_truthy_str(a_args.end_date))
               \/ ~py_truthy_str(a_args.bucket_name)
               \/ ~single /\ (~py_truthy_str(a_args.start_date) \/ ~py_truthy_str(a_args.end_date))
               \/ start_r.exc # "none"
               \/ end_r.exc # "none"
       IN  IF rejected
           THEN /\ a_exit' = <<1>>
                /\ a_pc' = "done"
                /\ UNCHANGED <<a_day, a_end, city_filter>>
           ELSE /\ a_day' = start_r.val
                /\ a_end' = end_r.val
                /\ city_filter' = normalize_city_for_filter(a_args.city)
                /\ a_pc' = "scan"
                /\ UNCHANGED <<a_exit>>
    /\ UNCHANGED <<a_args, a_objs, a_j, city_stats, a_log>>

\* for dt in date_range(start, end): list the objects of the day
analytics_scan_day ==
    /\ a_pc = "scan"
    /\ a_day <= a_end
    /\ a_objs' = ObjectsUnder(prefix_for_date(a_day))
    /\ a_j' = 0
    /\ a_pc' = "objects"
    /\ UNCHANGED <<a_args, a_day, a_end, city_filter, city_stats, a_log, a_exit>>

\* for obj in objs: one object
analytics_next_object ==
    /\ a_pc = "objects"
    /\ a_j < Len(a_objs)
    /\ LET did == analytics_object(a_objs[a_j + 1], city_stats, city_filter)
       IN  /\ a_log' = Append(a_log, [key |-> a_objs[a_j + 1].key, step |-> did.step])
           /\ city_stats' = did.stats
           /\ IF did.step \in {"filtered", "no_doc", "no_temp", "updated"}
              THEN /\ a_j' = a_j + 1
                   /\ UNCHANGED <<a_pc, a_exit>>
              ELSE /\ a_pc' = "raised"
                   /\ a_exit' = <<did.step>>
                   /\ UNCHANGED <<a_j>>
    /\ UNCHANGED <<a_args, a_day, a_end, city_filter, a_objs>>

\* the objects of the day are exhausted: cur += timedelta(days=1)
analytics_next_day ==
    /\ a_pc = "objects"
    /\ a_j = Len(a_objs)
    /\ a_day' = a_day + 86400
    /\ a_pc' = "scan"
    /\ UNCHANGED <<a_args, a_end, city_filter, a_objs, a_j, city_stats, a_log, a_exit>>

\* print_city_stats_table(city_stats); return 0
analytics_return ==
    /\ a_pc = "scan"
    /\ a_day > a_end
    /\ a_exit' = <<0>>
    /\ a_pc' = "done"
    /\ UNCHANGED <<a_args, a_day, a_end, city_filter, a_objs, a_j, city_stats, a_log>>

InitAnalytics ==
    /\ FetchIdle
    /\ RunStart
    /\ KeysIdle
    /\ StatsIdle
    /\ ListingIdle
    /\ MainIdle
    /\ SchedulerIdle
    /\ cities = <<>>
    /\ now \in StartTimes
    /\ interval = 900
    /\ runs = 0
    /\ put_log = <<>>
    /\ bucket \in BucketsUpTo(MaxObjects)
    /\ \E line \in CommandLines, c \in CityFilters :
          a_args = [date |-> line.date, start_date |-> line.start_date,
                    end_date |-> line.end_date, city |-> c,
                    bucket_name |-> line.bucket_name]
    /\ a_pc = "args"
    /\ a_day = 0
    /\ a_end = 0
    /\ city_filter = <<>>
    /\ a_objs = <<>>
    /\ a_j = 0
    /\ city_stats = <<>>
    /\ a_log = <<>>
    /\ a_exit = <<>>

NextAnalytics ==
    \/ analytics_start /\ UNCHANGED <<fvars, pvars, kvars, svars, lvars, mvars, schvars>>
    \/ analytics_scan_day /\ UNCHANGED <<fvars, pvars, kvars, svars, lvars, mvars, schvars>>
    \/ analytics_next_object /\ UNCHANGED <<fvars, pvars, kvars, svars, lvars, mvars, schvars>>
    \/ analytics_next_day /\ UNCHANGED <<fvars, pvars, kvars, svars, lvars, mvars, schvars>>
    \/ analytics_return /\ UNCHANGED <<fvars, pvars, kvars, svars, lvars, mvars, schvars>>

SpecAnalytics == InitAnalytics /\ [][NextAnalytics]_vars

(***************************************************************************)
(* CityStats folding: update_stats on a sequence of temperatures           *)
(***************************************************************************)
\* 10, 20 and 30 degrees, the smallest step of the grid, and the first power
\* of two whose neighbours are not all floats
StatValues ==
    {10 * UnitsPerKelvin, 20 * UnitsPerKelvin, 30 * UnitsPerKelvin, 1, Pow2(FloatPrecision)}

\* update_stats(stats, temp_c) on the next value
stats_update ==
    /\ s_fed < Len(s_values)
    /\ s_stats' = update_stats(s_stats, s_values[s_fed + 1])
    /\ s_fed' = s_fed + 1
    /\ UNCHANGED <<s_values>>

InitStats ==
    /\ FetchIdle
    /\ RunStart
    /\ KeysIdle
    /\ AnalyticsIdle
    /\ ListingIdle
    /\ MainIdle
    /\ SchedulerIdle
    /\ cities = <<>>
    /\ now \in StartTimes
    /\ interval = 900
    /\ runs = 0
    /\ put_log = <<>>
    /\ bucket = {}
    /\ s_values \in UNION {[1..n -> StatValues] : n \in 0..MaxValues}
    /\ s_fed = 0
    /\ s_stats = CityStats

NextStats == stats_update /\ UNCHANGED <<fvars, pvars, kvars, avars, lvars, mvars, schvars>>

SpecStats == InitStats /\ [][NextStats]_vars

(***************************************************************************)
(* main of weather_to_s3.py from its first line: load_env_config, then     *)
(* build_s3_client, then the pipeline                                      *)
(***************************************************************************)
\* str.split(sep)
RECURSIVE split(_, _)
split(s, sep) ==
    IF \E k \in DOMAIN s : s[k] = sep
    THEN LET k == CHOOSE k \in DOMAIN s : s[k] = sep /\ \A j \in 1..(k - 1) : s[j] # sep
         IN  <<SubSeq(s, 1, k - 1)>> \o split(SubSeq(s, k + 1, Len(s)), sep)
    ELSE <<s>>

NonEmptyStr(c) == c # <<>>

\* os.getenv(name, default)
getenv(name, default) == IF env[name] = <<>> THEN default ELSE env[name]

\* load_env_config: the cities of the Config, or RuntimeError
load_env_config ==
    LET api_key == getenv("OPENWEATHER_API_KEY", <<>>)
        bucket_name == getenv("S3_BUCKET_NAME", <<>>)
        cities_raw == getenv("CITIES", <<<<>>>>)[1]
        missing == ~py_truthy_str(api_key) \/ ~py_truthy_str(bucket_name)
                   \/ strip(cities_raw) = <<>>
        pieces == split(cities_raw, ",")
        config_cities == SelectSeq([k \in DOMAIN pieces |-> strip(pieces[k])], NonEmptyStr)
    IN  IF missing THEN Raise("RuntimeError")
        ELSE IF config_cities = <<>> THEN Raise("RuntimeError")
        ELSE Ok(config_cities)

\* try: config = load_env_config() except Exception: return 1
main_load_config ==
    /\ pc = "load_env"
    /\ IF load_env_config.exc # "none"
       THEN /\ exit_code' = <<1>>
            /\ pc' = "done"
            /\ UNCHANGED <<cities>>
       ELSE /\ cities' = load_env_config.val
            /\ pc' = "build_client"
            /\ UNCHANGED <<exit_code>>

\* try: s3_client = build_s3_client() except Exception: return 1
main_build_client ==
    /\ pc = "build_client"
    /\ IF client_fails
       THEN exit_code' = <<1>> /\ pc' = "done"
       ELSE pc' = "process" /\ UNCHANGED <<exit_code>>
    /\ UNCHANGED <<cities>>

Comma == <<",">>
Space == <<" ">>

\* values of CITIES: empty, blank, separators only, and lists of names
CitiesValues ==
    {<<>>, Space, Comma, Space \o Comma \o Space, Oslo, Oslo \o Comma \o NewYork,
     Space \o Oslo \o Space \o Comma \o Comma \o NewYork \o Space}

\* values of a required secret: empty, blank, and set
SecretValues == {<<>>, Space, <<"k">>}

Unset == <<>>
Environments ==
    [OPENWEATHER_API_KEY : {Unset} \cup {<<v>> : v \in SecretValues},
     S3_BUCKET_NAME : {Unset} \cup {<<v>> : v \in SecretValues},
     CITIES : {Unset} \cup {<<v>> : v \in CitiesValues}]

InitMain ==
    /\ FetchIdle
    /\ KeysIdle
    /\ AnalyticsIdle
    /\ StatsIdle
    /\ ListingIdle
    /\ SchedulerIdle
    /\ env \in Environments
    /\ client_fails \in BOOLEAN
    /\ pc = "load_env"
    /\ cities = <<>>
    /\ i = 0
    /\ attempt = 0
    /\ backoff = initial_backoff_seconds
    /\ trace = <<>>
    /\ last = "none"
    /\ weather = NoRecord
    /\ success_count = 0
    /\ failure_count = 0
    /\ temps = <<>>
    /\ failures = <<>>
    /\ run_log = <<>>
    /\ summary = NoSummary
    /\ exit_code = <<>>
    /\ now \in StartTimes
    /\ interval = 900
    /\ runs = 1
    /\ put_log = <<>>
    /\ bucket = {}

MainFrame ==
    UNCHANGED <<fvars, tvars, runs, interval, i, attempt, backoff, trace, last, weather,
                success_count, failure_count, temps, failures, run_log, put_log, bucket,
                now, summary>>

NextMain ==
    \/ main_load_config /\ MainFrame
    \/ main_build_client /\ MainFrame
    \/ Next

SpecMain == InitMain /\ [][NextMain]_vars

(***************************************************************************)
(* Paged listing: list_objects_for_prefix of weather_analytics.py and      *)
(* list_objects of view_weather_data.py against a store that answers in    *)
(* pages                                                                   *)
(***************************************************************************)
\* pages of the given sizes holding the objects 1, 2, 3, ... in order
RECURSIVE SumUpTo(_, _)
SumUpTo(sizes, k) == IF k = 0 THEN 0 ELSE SumUpTo(sizes, k - 1) + sizes[k]
PagesOfSizes(sizes) ==
    [k \in DOMAIN sizes |-> [n \in 1..sizes[k] |-> SumUpTo(sizes, k - 1) + n]]

\* listings of 1 to MaxPages pages with 0 to MaxPageSize objects each
Listings ==
    {PagesOfSizes(sizes) : sizes \in UNION {[1..n -> 0..MaxPageSize] : n \in 1..MaxPages}}

\* --limit: negative, zero, and limits below, at and above the listings' sizes
Limits == {-1, 0, 1, 2, 3, MaxPages * MaxPageSize + 1}

\* list_objects_v2(**kwargs): the first page without a token, page t for the
\* token t; the response names the next page while there is one
list_objects_v2(token) ==
    LET k == IF token = <<>> THEN 1 ELSE token[1]
    IN  [Contents |-> l_pages[k],
         IsTruncated |-> k < Len(l_pages),
         NextContinuationToken |-> <<k + 1>>]

RECURSIVE Flatten(_)
Flatten(seqs) == IF seqs = <<>> THEN <<>> ELSE Head(seqs) \o Flatten(Tail(seqs))

\* a loop that stops after the first response
lister_call_first_page_only ==
    /\ l_pc = "loop"
    /\ l_fn = "list_objects_for_prefix"
    /\ LET list_resp == list_objects_v2(l_token)
       IN  /\ l_calls' = Append(l_calls, [token |-> l_token, held |-> Len(l_results), ok |-> TRUE])
           /\ l_results' = l_results \o list_resp.Contents
           /\ l_pc' = "returned"
           /\ UNCHANGED <<l_token>>
    /\ UNCHANGED <<l_fn, l_pages, l_max>>

\* one pass of the while loop of list_objects_for_prefix when the call succeeds
lister_call ==
    /\ l_pc = "loop"
    /\ l_fn = "list_objects_for_prefix"
    /\ LET list_resp == list_objects_v2(l_token)
       IN  /\ l_calls' = Append(l_calls, [token |-> l_token, held |-> Len(l_results), ok |-> TRUE])
           /\ l_results' = l_results \o list_resp.Contents
           /\ IF ~list_resp.IsTruncated
              THEN l_pc' = "returned" /\ UNCHANGED <<l_token>>
              ELSE l_token' = list_resp.NextContinuationToken /\ UNCHANGED <<l_pc>>
    /\ UNCHANGED <<l_fn, l_pages, l_max>>

\* except (ClientError, BotoCoreError): break, in either function
lister_call_fails ==
    /\ l_pc = "loop"
    /\ l_calls' = Append(l_calls, [token |-> l_token, held |-> Len(l_results), ok |-> FALSE])
    /\ l_pc' = "returned"
    /\ UNCHANGED <<l_fn, l_pages, l_max, l_token, l_results>>

\* how many objects of a page the for loop of list_objects appends: it returns
\* at the first object that brings results to max_items or more
TakenFrom(page, held, max_items) ==
    LET reaching == {n \in 1..Len(page) : held + n >= max_items}
    IN  IF reaching = {} THEN Len(page)
        ELSE CHOOSE n \in reaching : \A other \in reaching : n <= other

\* one pass of the while loop of list_objects when the call succeeds
viewer_list_call ==
    /\ l_pc = "loop"
    /\ l_fn = "list_objects"
    /\ LET list_resp == list_objects_v2(l_token)
           taken == TakenFrom(list_resp.Contents, Len(l_results), l_max)
           held == Len(l_results) + taken
       IN  /\ l_calls' = Append(l_calls, [token |-> l_token, held |-> Len(l_results), ok |-> TRUE])
           /\ l_results' = l_results \o SubSeq(list_resp.Contents, 1, taken)
           /\ IF taken > 0 /\ held >= l_max
              THEN l_pc' = "returned" /\ UNCHANGED <<l_token>>
              ELSE IF ~list_resp.IsTruncated
              THEN l_pc' = "returned" /\ UNCHANGED <<l_token>>
              ELSE l_token' = list_resp.NextContinuationToken /\ UNCHANGED <<l_pc>>
    /\ UNCHANGED <<l_fn, l_pages, l_max>>

InitListing ==
    /\ FetchIdle
    /\ RunStart
    /\ KeysIdle
    /\ AnalyticsIdle
    /\ StatsIdle
    /\ MainIdle
    /\ SchedulerIdle
    /\ cities = <<>>
    /\ now \in StartTimes
    /\ interval = 900
    /\ runs = 0
    /\ put_log = <<>>
    /\ bucket = {}
    /\ l_pages \in Listings
    /\ \/ l_fn = "list_objects_for_prefix" /\ l_max = 0
       \/ l_fn = "list_objects" /\ l_max \in Limits
    /\ l_token = <<>>
    /\ l_results = <<>>
    /\ l_calls = <<>>
    /\ l_pc = "loop"

NextListing ==
    \/ lister_call /\ UNCHANGED <<fvars, pvars, kvars, avars, svars, mvars, schvars>>
    \/ lister_call_fails /\ UNCHANGED <<fvars, pvars, kvars, avars, svars, mvars, schvars>>
    \/ viewer_list_call /\ UNCHANGED <<fvars, pvars, kvars, avars, svars, mvars, schvars>>

SpecListing == InitListing /\ [][NextListing]_vars

\* the listing function keeps running until it returns
FairListing == SpecListing /\ WF_vars(NextListing)

(***************************************************************************)
(* weather_scheduler.py: run_scheduler_loop starts weather_to_s3.py as a   *)
(* subprocess, waits for it, sleeps for the interval, and starts it again  *)
(***************************************************************************)
\* returncode of the subprocess: the statuses of main, and death by a signal
ExitCodes == {0, 1, -9}

\* seconds a run takes: shorter and longer than either interval
RunDurations == {5, 4000}

\* seconds time.sleep oversleeps
Oversleep == {0, 1}

SchEvent(ev, code) == [ev |-> ev, t |-> sch_clock, code |-> code]

\* a run_pipeline_once that starts the subprocess without waiting for it
sch_launch_without_wait ==
    /\ sch_pc = "call"
    /\ sch_launches < MaxLaunches
    /\ sch_launches' = sch_launches + 1
    /\ sch_children' = sch_children + 1
    /\ sch_events' = Append(sch_events, SchEvent("start", 0))
    /\ sch_exit_code' = <<0>>
    /\ sch_pc' = "sleep"
    /\ UNCHANGED <<sch_interval, sch_clock, sch_return>>

\* run_pipeline_once: subprocess.run(cmd, check=False) has started the child
sch_launch ==
    /\ sch_pc = "call"
    /\ sch_launches < MaxLaunches
    /\ sch_launches' = sch_launches + 1
    /\ sch_children' = sch_children + 1
    /\ sch_events' = Append(sch_events, SchEvent("start", 0))
    /\ sch_pc' = "child"
    /\ UNCHANGED <<sch_interval, sch_clock, sch_exit_code, sch_return>>

\* run_pipeline_once: except Exception: return 1, then the rest of the loop
\* body up to time.sleep
sch_launch_fails ==
    /\ sch_pc = "call"
    /\ sch_launches < MaxLaunches
    /\ sch_launches' = sch_launches + 1
    /\ sch_events' = Append(sch_events, SchEvent("launch_failed", 1))
    /\ sch_exit_code' = <<1>>
    /\ sch_pc' = "sleep"
    /\ UNCHANGED <<sch_interval, sch_clock, sch_children, sch_return>>

\* a loop that ends when a run returns a status other than 0
sch_child_exits_stops_on_failure ==
    /\ sch_pc = "child"
    /\ \E code \in ExitCodes, d \in RunDurations :
          /\ sch_clock' = sch_clock + d
          /\ sch_children' = sch_children - 1
          /\ sch_events' = Append(sch_events, [ev |-> "exit", t |-> sch_clock + d, code |-> code])
          /\ sch_exit_code' = <<code>>
          /\ IF code = 0
             THEN sch_pc' = "sleep" /\ UNCHANGED <<sch_return>>
             ELSE sch_pc' = "returned" /\ sch_return' = <<code>>
    /\ UNCHANGED <<sch_interval, sch_launches>>

\* the child exits: return result.returncode, then the rest of the loop body
\* up to time.sleep
sch_child_exits ==
    /\ sch_pc = "child"
    /\ \E code \in ExitCodes, d \in RunDurations :
          /\ sch_clock' = sch_clock + d
          /\ sch_children' = sch_children - 1
          /\ sch_events' = Append(sch_events, [ev |-> "exit", t |-> sch_clock + d, code |-> code])
          /\ sch_exit_code' = <<code>>
          /\ sch_pc' = "sleep"
    /\ UNCHANGED <<sch_interval, sch_launches, sch_return>>

\* Ctrl+C while subprocess.run waits: run kills the child and waits for it,
\* no handler of the scheduler catches KeyboardInterrupt there
sch_interrupt_in_run ==
    /\ sch_pc = "child"
    /\ sch_children' = sch_children - 1
    /\ sch_events' = Append(sch_events, SchEvent("interrupt_in_run", 0))
    /\ sch_pc' = "raised"
    /\ UNCHANGED <<sch_interval, sch_clock, sch_launches, sch_exit_code, sch_return>>

\* time.sleep(interval_seconds) returns
sch_wake ==
    /\ sch_pc = "sleep"
    /\ \E late \in Oversleep :
          /\ sch_clock' = sch_clock + sch_interval + late
          /\ sch_events' = Append(sch_events,
                                  [ev |-> "wake", t |-> sch_clock + sch_interval + late, code |-> 0])
    /\ sch_pc' = "call"
    /\ UNCHANGED <<sch_interval, sch_children, sch_launches, sch_exit_code, sch_return>>

\* except KeyboardInterrupt: return 0
sch_interrupt_in_sleep ==
    /\ sch_pc = "sleep"
    /\ sch_events' = Append(sch_events, SchEvent("interrupt_in_sleep", 0))
    /\ sch_return' = <<0>>
    /\ sch_pc' = "returned"
    /\ UNCHANGED <<sch_interval, sch_clock, sch_children, sch_launches, sch_exit_code>>

\* run_scheduler_loop(interval) is entered
InitScheduler ==
    /\ FetchIdle
    /\ RunStart
    /\ KeysIdle
    /\ AnalyticsIdle
    /\ StatsIdle
    /\ ListingIdle
    /\ MainIdle
    /\ cities = <<>>
    /\ now \in StartTimes
    /\ interval = 900
    /\ runs = 0
    /\ put_log = <<>>
    /\ bucket = {}
    /\ sch_pc = "call"
    /\ sch_interval \in Intervals
    /\ sch_clock = 0
    /\ sch_children = 0
    /\ sch_launches = 0
    /\ sch_exit_code = <<>>
    /\ sch_events = <<>>
    /\ sch_return = <<>>

SchedulerFrame == UNCHANGED <<fvars, pvars, kvars, avars, svars, lvars, mvars>>

NextScheduler ==
    \/ sch_launch /\ SchedulerFrame
    \/ sch_launch_fails /\ SchedulerFrame
    \/ sch_child_exits /\ SchedulerFrame
    \/ sch_interrupt_in_run /\ SchedulerFrame
    \/ sch_wake /\ SchedulerFrame
    \/ sch_interrupt_in_sleep /\ SchedulerFrame

SpecScheduler == InitScheduler /\ [][NextScheduler]_vars

\* time.sleep comes to an end, and a call of run_pipeline_once that is due is
\* made; a child may run for ever
sch_sleep_ends == (sch_wake \/ sch_interrupt_in_sleep) /\ SchedulerFrame
sch_call_made == (sch_launch \/ sch_launch_fails) /\ SchedulerFrame
FairScheduler == SpecScheduler /\ WF_vars(sch_sleep_ends) /\ WF_vars(sch_call_made)

(***************************************************************************)
(* Properties of fetch_weather_with_retry                                  *)
(***************************************************************************)
AttemptCount(tr) == Cardinality({k \in DOMAIN tr : tr[k].ev = "attempt"})
SleepCount(tr) == Cardinality({k \in DOMAIN tr : tr[k].ev = "sleep"})
EndsWithAttempt(tr) == tr # <<>> /\ tr[Len(tr)].ev = "attempt"

\* C1: after an attempt that failed with a non-retriable WeatherAPIError the
\* call is about to return None: that attempt is the last event of the call, no
\* sleep follows it, and the next step hands "no record" to process_cities
\* without another attempt; on attempt 1 that is 1 attempt and 0 sleeps.
AbortsAfterNonRetriable ==
    last = "nonretriable" =>
        /\ pc = "fetched"
        /\ weather = NoRecord
        /\ EndsWithAttempt(trace)
        /\ AttemptCount(trace) = attempt
        /\ SleepCount(trace) = attempt - 1
        /\ (attempt = 1 => Len(trace) = 1)
        /\ pc' = "process"
        /\ now' = now
        /\ failures' = Append(failures, cities[i])

C1_NonRetriableAborts == [][AbortsAfterNonRetriable]_vars

C1_Witness == pc = "fetched" /\ last = "nonretriable" /\ attempt = 1 /\ Len(trace) = 1

\* C2: a call that returns a record after k retriable failures (k in 0..2)
\* made k+1 attempts and k sleeps, attempts and sleeps alternating, the j-th
\* sleep lasting initial_backoff_seconds * 2^(j-1), and returns the parsed record.
C2_BackoffSchedule ==
    (pc = "fetched" /\ last = "record") =>
        /\ attempt \in 1..max_attempts
        /\ Len(trace) = 2 * attempt - 1
        /\ \A j \in 1..attempt :
              trace[2 * j - 1].ev = "attempt" /\ trace[2 * j - 1].n = j
        /\ \A j \in 1..(attempt - 1) :
              trace[2 * j] = Event("sleep", initial_backoff_seconds * Pow2(j - 1), FALSE)
        /\ weather \in {WeatherData(float_sub(FloatLiteral(c), FloatLiteral(27315))) :
                          c \in TempLiterals}

C2_Witness ==
    /\ pc = "fetched" /\ last = "record" /\ attempt = 3
    /\ trace[2].n = 1 /\ trace[4].n = 2

\* C3: a call never makes more than max_attempts attempts, every step of it
\* either returns or adds an attempt or a sleep to a bounded trace, and a call
\* whose attempts all failed with retriable errors made exactly max_attempts
\* attempts and max_attempts - 1 sleeps, none after the last attempt, and
\* returns None.
AttemptsBounded ==
    /\ attempt <= max_attempts
    /\ AttemptCount(trace) = attempt
    /\ Len(trace) <= 2 * max_attempts - 1
    /\ (pc = "fetched" /\ last = "retriable") =>
          /\ attempt = max_attempts
          /\ SleepCount(trace) = max_attempts - 1
          /\ EndsWithAttempt(trace)
          /\ weather = NoRecord

FetchStepAdvances ==
    pc \in {"fetch", "sleep"} => (pc' = "fetched" \/ Len(trace') = Len(trace) + 1)

C3_BoundedAttempts == []AttemptsBounded /\ [][FetchStepAdvances]_vars

C3_Witness ==
    /\ pc = "fetched" /\ last = "retriable"
    /\ attempt = max_attempts /\ SleepCount(trace) = max_attempts - 1

(***************************************************************************)
(* Properties of the WeatherClient                                         *)
(***************************************************************************)
Is2xx(r) == r.net_ok /\ 200 <= r.status /\ r.status < 300

\* C4: call_openweather_api raises exactly on a transport error or a non-2xx
\* status, always a WeatherAPIError; the transport error is retriable and has
\* no status, and a non-2xx status is retriable exactly when it is 429 or in
\* 500..599.
C4_CallClassification ==
    /\ stage \in {"call_raised", "parse", "returned", "parse_raised"}
         => (stage = "call_raised" <=> ~Is2xx(resp))
    /\ stage = "call_raised" =>
         /\ outcome.kind = "WeatherAPIError"
         /\ ~resp.net_ok => (outcome.retriable /\ outcome.status_code = <<>>)
         /\ resp.net_ok =>
              /\ outcome.status_code = <<resp.status>>
              /\ outcome.retriable <=> (resp.status = 429 \/ resp.status \in 500..599)

C4_Witness ==
    /\ stage = "call_raised" /\ resp.net_ok /\ resp.status = 429
    /\ outcome.kind = "WeatherAPIError" /\ outcome.retriable

\* C5: a fetch that got a 2xx response returns a record or raises a
\* WeatherAPIError, retriable when the body is not JSON and non-retriable when
\* the body is JSON of an unexpected structure.
C5_ParseClassification ==
    /\ stage = "returned" => outcome.kind = "record"
    /\ stage = "parse_raised" =>
         /\ outcome.kind = "WeatherAPIError"
         /\ outcome.retriable <=> ~resp.json_ok

(***************************************************************************)
(* Properties of process_cities and main                                   *)
(***************************************************************************)
Returned == pc \in {"summarized", "done"}

\* the put_object calls of the current run
RunPuts == SelectSeq(put_log, LAMBDA e : e.run = runs)

\* put_object returned for the call, and the bucket holds an object under its key
InBucket(e) == e.stored /\ \E o \in bucket : o.key = e.key

\* positions of the city list for which this run stored an object
StoredIdx == {RunPuts[k].idx : k \in {n \in DOMAIN RunPuts : InBucket(RunPuts[n])}}

\* positions whose fetch failed, or whose upload failed
FailedOps == {k \in DOMAIN run_log : run_log[k].op \in {"none", "put_failed"}}

\* the names at the positions of cities that are not in idxs, in list order
NamesOutside(idxs) ==
    LET kept == SelectSeq([k \in 1..Len(cities) |-> k], LAMBDA j : j \notin idxs)
    IN  [k \in DOMAIN kept |-> cities[kept[k]]]

\* C6: with N cities of which M failed (fetch failed, or upload failed), the
\* returned summary has total_cities = N, success_count = N - M,
\* failure_count = M and M failures, the counts add up, and failures lists, in
\* order, exactly the list entries for which no object was stored.
C6_SummaryCounts ==
    Returned =>
        LET N == Len(cities)
            M == Cardinality(FailedOps)
        IN  /\ summary.total_cities = N
            /\ summary.success_count = N - M
            /\ summary.failure_count = M
            /\ Len(summary.failures) = M
            /\ summary.success_count + summary.failure_count = summary.total_cities
            /\ Cardinality(StoredIdx) = N - M
            /\ summary.failures = NamesOutside(StoredIdx)

C6_Witness ==
    /\ pc = "done" /\ Len(cities) = 3
    /\ summary.success_count = 1 /\ summary.failure_count = 2
    /\ \E k \in DOMAIN run_log : run_log[k].op = "none"
    /\ \E k \in DOMAIN run_log : run_log[k].op = "put_failed"

IsFetchOf(e, j) == e.op = "fetch" /\ e.idx = j
EndsCity(e) == e.op \in {"none", "put_ok", "put_failed"}

\* every entry of the run log follows the entry the loop body puts before it
InLoopOrder(log) ==
    \A k \in DOMAIN log :
        /\ log[k].op = "fetch" =>
              IF k = 1 THEN log[k].idx = 1
              ELSE EndsCity(log[k - 1]) /\ log[k].idx = log[k - 1].idx + 1
        /\ log[k].op \in {"none", "record"} => k > 1 /\ IsFetchOf(log[k - 1], log[k].idx)
        /\ log[k].op \in {"put_ok", "put_failed"} =>
              k > 1 /\ log[k - 1].op = "record" /\ log[k - 1].idx = log[k].idx

\* C7: the cities are fetched one at a time in list order, each exactly once
\* whatever happened to the cities before it, an upload is attempted only for a
\* city whose fetch returned a record, and failures keeps the list order.
C7_EveryCityInOrder ==
    /\ InLoopOrder(run_log)
    /\ Cardinality({k \in DOMAIN run_log : run_log[k].op = "fetch"}) = i
    /\ {e.idx : e \in {RunPuts[k] : k \in DOMAIN RunPuts}}
          = {run_log[k].idx : k \in {n \in DOMAIN run_log : run_log[n].op = "record"}}
    /\ Returned =>
          /\ i = Len(cities)
          /\ \A j \in 1..Len(cities) :
                Cardinality({k \in DOMAIN run_log : IsFetchOf(run_log[k], j)}) = 1
          /\ run_log # <<>> /\ EndsCity(run_log[Len(run_log)])
          /\ failures = NamesOutside({run_log[k].idx :
                                        k \in {n \in DOMAIN run_log : run_log[n].op = "put_ok"}})

C7_Witness ==
    /\ pc = "done" /\ Len(cities) = 3
    /\ \E a, b, c \in DOMAIN run_log :
          /\ run_log[a].op = "none" /\ run_log[a].idx = 1
          /\ run_log[b].op = "put_failed" /\ run_log[b].idx = 2
          /\ run_log[c].op = "put_ok" /\ run_log[c].idx = 3

\* temperatures of the objects this run stored, in upload order
UploadedTemps ==
    LET stored == SelectSeq(RunPuts, InBucket)
    IN  [k \in DOMAIN stored |-> stored[k].body]

OverUploadedTemps ==
    /\ (summary.success_count = 0) <=> (summary.min_temp_c = <<>>)
    /\ (summary.success_count = 0) <=> (summary.max_temp_c = <<>>)
    /\ (summary.success_count = 0) <=> (summary.avg_temp_c = <<>>)
    /\ Len(UploadedTemps) = summary.success_count
    /\ summary.success_count > 0 =>
          /\ summary.min_temp_c = <<py_min(UploadedTemps)>>
          /\ summary.max_temp_c = <<py_max(UploadedTemps)>>
          /\ summary.avg_temp_c
                = <<float_div(py_sum(UploadedTemps), Len(UploadedTemps))>>

\* C8 as stated: the aggregates are taken over the uploaded temperatures, are
\* null exactly without a success, and otherwise min <= avg <= max.
C8_AverageBetweenMinAndMax ==
    Returned =>
        /\ OverUploadedTemps
        /\ summary.success_count > 0 =>
              /\ summary.min_temp_c[1] <= summary.avg_temp_c[1]
              /\ summary.avg_temp_c[1] <= summary.max_temp_c[1]

\* C8 amended: the aggregates are taken over the uploaded temperatures (min and
\* max exactly, avg as the float sum divided by the count), are null exactly
\* without a success, and otherwise min <= max.
C8_AggregatesOverUploads ==
    Returned =>
        /\ OverUploadedTemps
        /\ summary.success_count > 0 => summary.min_temp_c[1] <= summary.max_temp_c[1]

C8_Witness ==
    /\ pc = "done" /\ summary.success_count = 2
    /\ summary.min_temp_c[1] < summary.max_temp_c[1]
    /\ \E k \in DOMAIN RunPuts : ~RunPuts[k].stored

ExitMatchesSummary ==
    /\ pc = "done" =>
          /\ exit_code \in {<<0>>, <<1>>}
          /\ exit_code = <<1>> <=> summary.failure_count > 0
          /\ exit_code = <<0>> <=> summary.failure_count = 0
          /\ summary.failure_count = failure_count
    /\ pc = "done" /\ Len(cities) = 3 =>
          \A j \in 1..3 :
              (/\ \E k \in DOMAIN run_log :
                     run_log[k] = Op("none", j, TRUE)
               /\ \A n \in (1..3) \ {j} : \E k \in DOMAIN run_log :
                     run_log[k] = Op("put_ok", n, FALSE))
              => /\ summary.total_cities = 3
                 /\ summary.success_count = 2
                 /\ summary.failure_count = 1
                 /\ summary.failures = <<cities[j]>>
                 /\ exit_code = <<1>>

\* C9: main, once process_cities is called, goes on until it returns; it
\* returns 1 exactly when failure_count > 0 and 0 exactly when failure_count = 0;
\* with 3 cities of which one met HTTP 500 on all 3 attempts and the others
\* were stored, the summary is total 3, success 2, failure 1, failures that
\* city, and main returns 1.
C9_ExitStatus == []ExitMatchesSummary /\ <>(pc = "done")

C9_Witness ==
    /\ pc = "done" /\ Len(cities) = 3 /\ exit_code = <<1>>
    /\ summary.total_cities = 3 /\ summary.success_count = 2
    /\ summary.failure_count = 1 /\ summary.failures = <<cities[2]>>
    /\ \E k \in DOMAIN run_log : run_log[k] = Op("none", 2, TRUE)

\* the program keeps executing: some enabled step is eventually taken
FairSpec == Spec /\ WF_vars(Next)

(***************************************************************************)
(* Properties of the keys over scheduled runs                              *)
(***************************************************************************)
\* what the key is meant to tell apart: normalized city and UTC second
KeyIdentity(e) == <<normalize_city_for_key(e.city), e.ts>>

\* C10: two uploads whose (normalized city, UTC second) differ never get the
\* same key, so over the runs of a scheduler no stored object is written again
\* by a later upload with another city or second.
C10_UniqueKeys ==
    \A a, b \in DOMAIN put_log :
        KeyIdentity(put_log[a]) # KeyIdentity(put_log[b])
            => put_log[a].key # put_log[b].key

(***************************************************************************)
(* Properties of the key scheme                                            *)
(***************************************************************************)
\* YYYY/MM/DD/<normalized-city>_<HHMMSS>.json
DocumentedKey(city, ts) ==
    strftime_date(ts) \o <<"/">> \o normalize_city_for_key(city) \o <<"_">>
        \o Pad2(HourOf(ts)) \o Pad2(MinuteOf(ts)) \o Pad2(SecondOf(ts))
        \o <<".", "j", "s", "o", "n">>

\* C11: for every city and UTC timestamp build_s3_key returns
\* YYYY/MM/DD/<normalized-city>_<HHMMSS>.json with the two-digit hour, minute
\* and second of the timestamp.
C11_KeyLayout ==
    built.key # <<>> => built.key[1] = DocumentedKey(query.city, query.ts)

\* the prefix builder returned a string
PrefixBuilt == built.prefix # <<>> /\ built.prefix[1].exc = "none"

\* YYYY/MM/DD of the day of the query's timestamp
DatePath == strftime_date(query.ts)

\* C15: the prefix builder returns the empty string without a filter,
\* YYYY/MM/DD/ with the trailing slash for a date only, <normalized-city>_ for
\* a city only, and for date plus city a string that starts with the date path.
C15_PrefixModes ==
    PrefixBuilt =>
        LET prefix == built.prefix[1].val
            dated == py_truthy_str(query.date_str)
            named == py_truthy_str(query.city_arg)
        IN  /\ ~dated /\ ~named => prefix = <<>>
            /\ dated /\ ~named => prefix = DatePath \o <<"/">>
            /\ ~dated /\ named => prefix = normalize_city_for_key(query.city_arg[1]) \o <<"_">>
            /\ dated /\ named => startswith(prefix, DatePath)

\* a name as load_env_config hands it to ingestion: stripped and not empty
ConfiguredCity(c) == c # <<>> /\ strip(c) = c

\* C16: the key ingestion writes for a city and a timestamp starts with the
\* prefix the viewer builds for every filter that matches it: the date of the
\* timestamp or no date, the city or no city.
C16_KeyUnderPrefix ==
    PrefixBuilt /\ built.key # <<>> /\ ConfiguredCity(query.city)
        => startswith(built.key[1], built.prefix[1].val)

(***************************************************************************)
(* Properties of the analytics run                                         *)
(***************************************************************************)
ObjectAt(key) == CHOOSE o \in bucket : o.key = key

\* the filename ingestion gives an object of the filtered city
WrittenForFilter(o) ==
    rsplit_last(o.key, "/")
        = city_filter[1] \o <<"_">> \o strftime_time(o.ts) \o <<".", "j", "s", "o", "n">>

\* C12: with a city filter the run goes on to download exactly the listed
\* objects whose filename is <normalized filter>_<time>.json and skips every
\* other object, for names with spaces and whatever the filter's letter case.
C12_CityFilterSelects ==
    py_truthy_str(city_filter) =>
        \A k \in DOMAIN a_log :
            (a_log[k].step # "filtered") <=> WrittenForFilter(ObjectAt(a_log[k].key))

\* objects whose day lies in the range of the command line
InRange(o) ==
    /\ py_truthy_str(a_args.date) \/ py_truthy_str(a_args.start_date)
    /\ LET first == IF py_truthy_str(a_args.date) THEN a_args.date[1] ELSE a_args.start_date[1]
           final == IF py_truthy_str(a_args.date) THEN a_args.date[1] ELSE a_args.end_date[1]
       IN  /\ ~StrLess(IsoDate(o.ts), first)
           /\ ~StrLess(final, IsoDate(o.ts))

RECURSIVE CountSum(_)
CountSum(stats) ==
    IF DOMAIN stats = {} THEN 0
    ELSE LET name == CHOOSE n \in DOMAIN stats : TRUE
         IN  stats[name].count + CountSum([n \in DOMAIN stats \ {name} |-> stats[n]])

\* C13: no object aborts the run: whatever an object holds, the run does not
\* end in an exception, only aggregated objects change the statistics, and a
\* run over a date range ends with status 0 after meeting every object of it.
C13_NoObjectAborts ==
    /\ a_pc # "raised"
    /\ CountSum(city_stats) = Cardinality({k \in DOMAIN a_log : a_log[k].step = "updated"})
    /\ a_pc = "done" /\ a_log # <<>> =>
          /\ a_exit = <<0>>
          /\ {a_log[k].key : k \in DOMAIN a_log} = {o.key : o \in {x \in bucket : InRange(x)}}

(***************************************************************************)
(* Properties of update_stats                                              *)
(***************************************************************************)
Orders(n) == {f \in [1..n -> 1..n] : \A a, b \in 1..n : a # b => f[a] # f[b]}
Reordered(seq, f) == [k \in DOMAIN seq |-> seq[f[k]]]

AllFed == s_fed = Len(s_values) /\ s_values # <<>>

\* count, minimum and maximum of the values that were fed
CountMinMax ==
    /\ s_stats.count = Len(s_values)
    /\ s_stats.temp_min = <<py_min(s_values)>>
    /\ s_stats.temp_max = <<py_max(s_values)>>

\* the values are 10, 20 and 30 in some order
TenTwentyThirty ==
    \E f \in Orders(3) :
        s_values = Reordered(<<10 * UnitsPerKelvin, 20 * UnitsPerKelvin, 30 * UnitsPerKelvin>>, f)

ExampleFold ==
    TenTwentyThirty =>
        /\ s_stats.count = 3
        /\ s_stats.temp_min = <<10 * UnitsPerKelvin>>
        /\ s_stats.temp_max = <<30 * UnitsPerKelvin>>
        /\ float_div(s_stats.temp_sum, s_stats.count) = 20 * UnitsPerKelvin

EveryCallSucceeded == \A k \in DOMAIN l_calls : l_calls[k].ok

\* the first call carries no token, call k + 1 the token of response k
TokensFollowed ==
    \A k \in DOMAIN l_calls :
        l_calls[k].token = IF k = 1 THEN <<>> ELSE <<k>>

AllPagesListed ==
    l_fn = "list_objects_for_prefix" =>
        /\ TokensFollowed
        /\ Len(l_calls) <= Len(l_pages)
        /\ l_pc = "returned" /\ EveryCallSucceeded =>
              /\ Len(l_calls) = Len(l_pages)
              /\ l_results = Flatten(l_pages)

\* C17: when every list call succeeds, list_objects_for_prefix returns, after
\* one call per page, every object of every page once and in page order, and
\* passes to each call after the first the token of the previous response.
C17_FollowsTokens == []AllPagesListed /\ <>(l_pc = "returned")

C17_Witness ==
    /\ l_fn = "list_objects_for_prefix" /\ l_pc = "returned" /\ EveryCallSucceeded
    /\ Len(l_pages) = 3 /\ Len(l_calls) = 3
    /\ Len(l_pages[2]) = 0 /\ Len(l_results) = 4

\* C18: list_objects returns at most max_items objects, none for a limit of
\* zero or less, and makes no further list call once it holds max_items objects.
C18_AtMostMaxItems ==
    l_fn = "list_objects" =>
        /\ Len(l_results) <= (IF l_max < 0 THEN 0 ELSE l_max)
        /\ \A k \in DOMAIN l_calls : k > 1 => l_calls[k].held < l_max

(***************************************************************************)
(* Properties of the start of main                                         *)
(***************************************************************************)
\* unset, empty, or nothing but whitespace
Blank(opt) == opt = <<>> \/ strip(opt[1]) = <<>>

NoCityNamed ==
    env.CITIES # <<>> /\
        \A k \in DOMAIN split(env.CITIES[1], ",") : strip(split(env.CITIES[1], ",")[k]) = <<>>

ConfigurationMissing ==
    \/ Blank(env.OPENWEATHER_API_KEY)
    \/ Blank(env.S3_BUCKET_NAME)
    \/ Blank(env.CITIES)
    \/ NoCityNamed

NothingAttempted == run_log = <<>> /\ put_log = <<>> /\ trace = <<>>

\* C19: when OPENWEATHER_API_KEY, S3_BUCKET_NAME or CITIES is unset or blank,
\* CITIES names no city, or the client cannot be built, main attempts no
\* fetch and no put for any city and returns a status other than 0.
C19_FatalBeforeAnyCity ==
    ConfigurationMissing \/ client_fails =>
        /\ NothingAttempted
        /\ pc = "done" => exit_code # <<0>>

(***************************************************************************)
(* Properties of the city normalisation                                    *)
(***************************************************************************)
NoSpaceNoUpper(str) == \A k \in DOMAIN str : str[k] # " " /\ str[k] \notin DOMAIN UpperToLower

\* C20: in each of the three implementations the normalised city holds no
\* space and no uppercase letter, and normalising it again returns it unchanged.
C20_NormalizeIdempotent ==
    /\ \A k \in DOMAIN built.norm :
          built.norm[k].out # <<>> => NoSpaceNoUpper(built.norm[k].out[1])
    /\ Len(built.norm) = 2 => built.norm[2].out = built.norm[1].out

(***************************************************************************)
(* Properties of run_scheduler_loop                                        *)
(***************************************************************************)
\* a run has just returned to the loop: the child exited or was not launched
RunReturns ==
    /\ sch_pc \in {"call", "child"}
    /\ sch_events' # sch_events
    /\ sch_events'[Len(sch_events')].ev \in {"exit", "launch_failed"}

\* after a run, whatever it returned, the loop sleeps; the sleep ends in the
\* next call, a full interval later, or in the return of 0 on an interrupt
LoopStep ==
    /\ RunReturns => sch_pc' = "sleep" /\ sch_return' = <<>>
    /\ sch_pc = "sleep" /\ sch_pc' # "sleep" =>
          \/ sch_pc' = "call" /\ sch_clock' >= sch_clock + sch_interval
          \/ /\ sch_pc' = "returned" /\ sch_return' = <<0>>
             /\ sch_events'[Len(sch_events')].ev = "interrupt_in_sleep"
    /\ sch_return' # <<>> => sch_return' = <<0>> /\ sch_pc \in {"sleep", "returned"}

\* a run that has returned is followed, unless the sleep is interrupted, by
\* the next call of run_pipeline_once
AnotherRunFollows ==
    \A n \in 1..(MaxLaunches - 1) :
        (sch_pc = "sleep" /\ sch_launches = n) ~>
            (sch_launches = n + 1 \/ sch_pc = "returned")

\* C21: after every run, whatever its exit code and also when the subprocess
\* could not be launched, run_scheduler_loop sleeps for the interval and then
\* calls run_pipeline_once again; it returns only on a keyboard interrupt
\* during the sleep, and then 0.
C21_LoopContinues == [][LoopStep]_vars /\ AnotherRunFollows

C21_Witness ==
    /\ sch_pc = "child"
    /\ \E j, k \in DOMAIN sch_events :
          /\ j < k
          /\ sch_events[j].ev = "exit" /\ sch_events[j].code = -9
          /\ sch_events[k].ev = "launch_failed"

\* the event before start k + 1 is the wake-up of a sleep that began at the
\* exit of run k and lasted the interval
StartsAfterFullSleep ==
    \A k \in DOMAIN sch_events :
        sch_events[k].ev = "start" /\ k > 1 =>
            /\ k > 2
            /\ sch_events[k - 1].ev = "wake"
            /\ sch_events[k - 2].ev \in {"exit", "launch_failed"}
            /\ sch_events[k - 1].t >= sch_events[k - 2].t + sch_interval
            /\ sch_events[k].t >= sch_events[k - 1].t

\* C22: at most one weather_to_s3 subprocess of the scheduler is alive at any
\* time, and every run after the first starts only after the run before it has
\* exited and a full interval has passed since that exit.
C22_RunsNeverOverlap == sch_children <= 1 /\ StartsAfterFullSleep

C22_Witness ==
    /\ sch_pc = "child" /\ sch_children = 1 /\ sch_interval = 900
    /\ \E k \in DOMAIN sch_events :
          /\ sch_events[k].ev = "exit"
          /\ k > 1 /\ sch_events[k].t - sch_events[k - 1].t > sch_interval
          /\ k + 2 = Len(sch_events)

====
